---- MODULE Spec2Model ----
(***************************************************************************)
(* A model of the world / physics / chunk-streaming core of the game:      *)
(* the 3-chunk window (world/World.py), the collision resolver              *)
(* (entity/Hitbox.py), the water automaton (world/WaterSimulation.py),      *)
(* block breaking and placing (world/BlockInteraction.py), the inventory    *)
(* (world/Inventory.py), crafting (world/CraftingRecipes.py), chunk         *)
(* generation (world/Chunk.py, world/Block.py), the mouse (input/Mouse.py)  *)
(* and the game tick (Game.py).                                             *)
(*                                                                          *)
(* Lengths are integers counted in fifths of a pixel (PX units per pixel),  *)
(* so that the player's box of 0.6 x 1.8 tiles (38.4 x 115.2 pixels) and    *)
(* its half (the centre used by the reach check) are exact.                 *)
(*                                                                          *)
(* The tile grid of a chunk is kept sparsely: blocks maps the cells         *)
(* <<chunk position, column, row>> that are not Air to their tile; every    *)
(* other cell of a windowed chunk is an Air tile.                           *)
(***************************************************************************)
EXTENDS Integers, Sequences, FiniteSets, TLC

VARIABLES chunk_list, blocks, player, camera, pc, prev, hist, inventory, gen,
          mouse

\* prev is a history variable: the entity as the last physics step found it
\* (its position and its proposed x_change, y_change), kept until load_chunks.
\* hist is a history variable: the last operation on the grid or the
\* inventory, the grid and the inventory before it, its target cell and its
\* result (for an inventory operation, the block type it was called with, and
\* in quantity and ok the quantity it was called with and the value returned).
\* gen is the chunk under construction by Chunk.generate_chunks: its position
\* in the passes, the heights drawn, the tiles written and the local variables
\* of the flood fill in progress.
\* mouse is the Mouse object of the game; its field frame is a history
\* variable, the mouse button events handled since the last
\* reset_click_events.
vars == <<chunk_list, blocks, player, camera, pc, prev, hist, inventory, gen, mouse>>

----------------------------------------------------------------------------
(* Program constants *)

PX == 5
BLOCK_SIZE == 64
CHUNK_WIDTH == 64
CHUNK_HEIGHT == 192
MOVEMENT_SPEED == 600
MAX_SPREAD_DISTANCE == 7
MAX_REACH == 6

\* One tile and one chunk, in model units.
BS == BLOCK_SIZE * PX
CW == CHUNK_WIDTH * BLOCK_SIZE * PX

\* Player.__init__: BLOCK_SIZE * 0.6 wide, BLOCK_SIZE * 1.8 tall.
PLAYER_WIDTH == (BLOCK_SIZE * PX * 6) \div 10
PLAYER_HEIGHT == (BLOCK_SIZE * PX * 18) \div 10

----------------------------------------------------------------------------
(* Bounds of the model *)

\* The player's x stays within MaxChunk chunk widths of the origin.
MaxChunk == 3
\* Frame times (clock.tick(), milliseconds) the input step may see.
DtChoices == {250, 1000, 7000}

----------------------------------------------------------------------------
(* Tiles *)

NonSolid == {"Air", "OakLog", "Leaves", "Poppy", "Water"}

AirTile == [block_type |-> "Air", water_distance |-> 0]

Block(block_type, water_distance) ==
    [block_type |-> block_type, water_distance |-> water_distance]

\* chunk.blocks[y][x] of the chunk at position pos.
TileAt(b, pos, x, y) ==
    IF <<pos, x, y>> \in DOMAIN b THEN b[<<pos, x, y>>] ELSE AirTile

\* chunk.blocks[y][x] = tile
SetTile(b, pos, x, y, tile) ==
    LET c == <<pos, x, y>>
        D == IF tile.block_type = "Air" THEN DOMAIN b \ {c} ELSE DOMAIN b \cup {c}
    IN [d \in D |-> IF d = c THEN tile ELSE b[d]]

\* The tile of grid b at cell c.
Tile(b, c) == TileAt(b, c[1], c[2], c[3])

InGrid(x, y) == 0 <= x /\ x < CHUNK_WIDTH /\ 0 <= y /\ y < CHUNK_HEIGHT

Positions(cl) == {cl[i] : i \in DOMAIN cl}

----------------------------------------------------------------------------
(* Chunk window: world/World.py, world/Chunk.py *)

calculate_player_position(x) == x \div CW

InitialWindow == <<-1, 0, 1>>

\* LoadLeft that tests the middle chunk in place of the leftmost one.
LoadLeftMutant(cl) ==
    IF cl[2] = calculate_player_position(player.x)
    THEN SubSeq(<<cl[1] - 1>> \o cl, 1, Len(cl))
    ELSE cl

LoadLeft(cl) ==
    IF cl[1] = calculate_player_position(player.x)
    THEN SubSeq(<<cl[1] - 1>> \o cl, 1, Len(cl))
    ELSE cl

LoadRightMutant(cl) ==
    IF cl[3] = calculate_player_position(player.x)
    THEN SubSeq(cl \o <<cl[Len(cl)]>>, 2, Len(cl) + 1)
    ELSE cl

LoadRight(cl) ==
    IF cl[3] = calculate_player_position(player.x)
    THEN SubSeq(cl \o <<cl[Len(cl)] + 1>>, 2, Len(cl) + 1)
    ELSE cl

load_chunks(cl) == LoadRight(LoadLeft(cl))

----------------------------------------------------------------------------
(* Collision and kinematics: entity/Hitbox.py *)

Min(a, b) == IF a < b THEN a ELSE b
Max(a, b) == IF a > b THEN a ELSE b

\* Hitbox.update_player_position, lines 72-73.
chunk_x_of(x) == (x % CW) \div BS
chunk_y_of(y) == y \div BS

\* Hitbox._get_chunks_to_check: the positions of <<left, center, right>>.
get_chunks_to_check(cl, cx) ==
    <<IF cx % CHUNK_WIDTH = 0 THEN cl[1] ELSE cl[2],
      cl[2],
      IF cx % CHUNK_WIDTH = CHUNK_WIDTH - 1 THEN cl[3] ELSE cl[2]>>

\* Hitbox.check_collision: the box of width w, height h at (x, y) against a tile.
check_collision(block, x, y, w, h) ==
    /\ x < block.x + BS
    /\ x + w > block.x
    /\ y < block.y + BS
    /\ y + h > block.y

\* The i-th tile of the 5 x 6 scan (rows -2..3 outside, columns -2..2 inside),
\* with the chunk it is read from and the absolute x it is given.
ScanCandidate(b, chunks, cx, cy, i) ==
    LET dy == ((i - 1) \div 5) - 2
        dx == ((i - 1) % 5) - 2
        raw_x == cx + dx
        check_y == cy + dy
        current == IF raw_x < 0 THEN chunks[1]
                   ELSE IF raw_x >= CHUNK_WIDTH THEN chunks[3] ELSE chunks[2]
        check_x == IF raw_x < 0 THEN CHUNK_WIDTH + raw_x
                   ELSE IF raw_x >= CHUNK_WIDTH THEN raw_x - CHUNK_WIDTH ELSE raw_x
    IN [solid |-> /\ InGrid(check_x, check_y)
                  /\ TileAt(b, current, check_x, check_y).block_type \notin NonSolid,
        x |-> current * CW + check_x * BS,
        y |-> check_y * BS]

\* Hitbox._find_colliding_blocks: the solid scanned tiles that the proposed
\* box (x_change, y_change) overlaps, in scan order.
find_colliding_blocks(b, cl, p) ==
    LET cx == chunk_x_of(p.x)
        cy == chunk_y_of(p.y)
        chunks == get_chunks_to_check(cl, cx)
        cand == [i \in 1..30 |-> ScanCandidate(b, chunks, cx, cy, i)]
    IN SelectSeq(cand, LAMBDA c :
           c.solid /\ check_collision(c, p.x_change, p.y_change,
                                      PLAYER_WIDTH, PLAYER_HEIGHT))

\* ResolveOne with a landing clamp that puts the box's top, not its bottom,
\* on the tile's top edge.
ResolveOneMutant(p, block) ==
    LET x_overlap == Min(p.x + PLAYER_WIDTH, block.x + BS) - Max(p.x, block.x)
        y_overlap == Min(p.y + PLAYER_HEIGHT, block.y + BS) - Max(p.y, block.y)
    IN IF x_overlap < y_overlap
       THEN IF p.x < block.x
            THEN [p EXCEPT !.x_change = block.x - PLAYER_WIDTH]
            ELSE [p EXCEPT !.x_change = block.x + BS]
       ELSE IF p.y < block.y
            THEN [p EXCEPT !.y_change = block.y]
            ELSE [p EXCEPT !.grounded = TRUE, !.y_change = block.y + BS]

\* One iteration of the loop of Hitbox._resolve_collisions.
ResolveOne(p, block) ==
    LET x_overlap == Min(p.x + PLAYER_WIDTH, block.x + BS) - Max(p.x, block.x)
        y_overlap == Min(p.y + PLAYER_HEIGHT, block.y + BS) - Max(p.y, block.y)
    IN IF x_overlap < y_overlap
       THEN IF p.x < block.x
            THEN [p EXCEPT !.x_change = block.x - PLAYER_WIDTH]
            ELSE [p EXCEPT !.x_change = block.x + BS]
       ELSE IF p.y < block.y
            THEN [p EXCEPT !.y_change = block.y - PLAYER_HEIGHT]
            ELSE [p EXCEPT !.grounded = TRUE, !.y_change = block.y + BS]

RECURSIVE ResolveFrom(_, _, _)
ResolveFrom(p, block_list, i) ==
    IF i > Len(block_list) THEN p
    ELSE ResolveFrom(ResolveOne(p, block_list[i]), block_list, i + 1)

\* Hitbox._resolve_collisions
resolve_collisions(p, block_list) ==
    ResolveFrom([p EXCEPT !.grounded = FALSE], block_list, 1)

\* Hitbox.update_player_position, lines 90-94: the last block of the list decides.
GroundedAfterLoop(p, block_list) ==
    IF Len(block_list) = 0 THEN p.grounded
    ELSE block_list[Len(block_list)].y >= p.y

\* Hitbox._check_if_in_water
check_if_in_water(b, cl, p) ==
    LET cx == chunk_x_of(p.x)
        center == get_chunks_to_check(cl, cx)[2]
        \* feet_y = y + height - BLOCK_SIZE / 2
        feet_row == (p.y + PLAYER_HEIGHT - (BS \div 2)) \div BS
    IN \E dy \in -1..1 :
          /\ InGrid(cx, feet_row + dy)
          /\ TileAt(b, center, cx, feet_row + dy).block_type = "Water"

\* Hitbox.update_player_position, as a function of the entity and the window.
update_player_position(b, cl, p) ==
    LET block_list == find_colliding_blocks(b, cl, p)
        in_water == check_if_in_water(b, cl, p)
        r == resolve_collisions(p, block_list)
        g == GroundedAfterLoop(r, block_list)
    IN [x |-> r.x_change, y |-> r.y_change,
        x_change |-> r.x_change, y_change |-> r.y_change,
        grounded |-> g, in_water |-> in_water]

\* Hitbox.__init__ / Player.__init__: the player at (x, y), at rest.
NewPlayer(x, y) ==
    [x |-> x, y |-> y, x_change |-> x, y_change |-> y,
     grounded |-> TRUE, in_water |-> FALSE]

----------------------------------------------------------------------------
(* Water automaton: world/WaterSimulation.py *)

IsWater(b, pos, x, y) == TileAt(b, pos, x, y).block_type = "Water"

\* The place of cell c in the scan of update_water: chunks in the order of
\* chunk_list, rows from the bottom row upward, columns left to right.
RECURSIVE IndexOf(_, _, _)
IndexOf(cl, pos, i) ==
    IF i > Len(cl) THEN 0
    ELSE IF cl[i] = pos THEN i ELSE IndexOf(cl, pos, i + 1)

ScanKey(cl, c) ==
    (IndexOf(cl, c[1], 1) * CHUNK_HEIGHT + (CHUNK_HEIGHT - 1 - c[3])) * CHUNK_WIDTH + c[2]

\* flow_downward that copies the distance of the tile above instead of adding one.
FlowDownwardMutant(st, pos, x, y) ==
    IF y >= CHUNK_HEIGHT - 1 THEN [st EXCEPT !.flowed = FALSE]
    ELSE LET current_distance == TileAt(st.b, pos, x, y).water_distance
             block_below == TileAt(st.b, pos, x, y + 1)
         IN IF block_below.block_type = "Air" \/ block_below.block_type = "Poppy"
            THEN [b |-> SetTile(st.b, pos, x, y + 1, Block("Water", current_distance)),
                  updated |-> st.updated \cup {<<pos, x, y + 1>>},
                  flowed |-> TRUE]
            ELSE [st EXCEPT !.flowed = FALSE]

\* flow_downward that also flows into an OakLog.
FlowDownwardThroughLogMutant(st, pos, x, y) ==
    IF y >= CHUNK_HEIGHT - 1 THEN [st EXCEPT !.flowed = FALSE]
    ELSE LET current_distance == TileAt(st.b, pos, x, y).water_distance
             block_below == TileAt(st.b, pos, x, y + 1)
         IN IF block_below.block_type \in {"Air", "Poppy", "OakLog"}
            THEN [b |-> SetTile(st.b, pos, x, y + 1, Block("Water", current_distance + 1)),
                  updated |-> st.updated \cup {<<pos, x, y + 1>>},
                  flowed |-> TRUE]
            ELSE [st EXCEPT !.flowed = FALSE]

\* WaterSimulation._flow_downward on the grid and visited set of st.
flow_downward(st, pos, x, y) ==
    IF y >= CHUNK_HEIGHT - 1 THEN [st EXCEPT !.flowed = FALSE]
    ELSE LET current_distance == TileAt(st.b, pos, x, y).water_distance
             block_below == TileAt(st.b, pos, x, y + 1)
         IN IF block_below.block_type = "Air" \/ block_below.block_type = "Poppy"
            THEN [b |-> SetTile(st.b, pos, x, y + 1, Block("Water", current_distance + 1)),
                  updated |-> st.updated \cup {<<pos, x, y + 1>>},
                  flowed |-> TRUE]
            ELSE [st EXCEPT !.flowed = FALSE]

\* SideCell that takes the chunk beside a chunk edge to be there always.
SideCellMutant(cl, pos, x, dx) ==
    LET nx == x + dx
    IN IF nx < 0
       THEN [ok |-> TRUE, pos |-> pos - 1, x |-> CHUNK_WIDTH - 1]
       ELSE IF nx >= CHUNK_WIDTH
       THEN [ok |-> TRUE, pos |-> pos + 1, x |-> 0]
       ELSE [ok |-> TRUE, pos |-> pos, x |-> nx]

\* The chunk and column beside column x of the chunk at pos, on side dx = -1
\* or 1: the adjacent chunk of chunk_list at a chunk edge, none (ok = FALSE)
\* when that chunk is not in chunk_list.
SideCell(cl, pos, x, dx) ==
    LET nx == x + dx
    IN IF nx < 0
       THEN [ok |-> (pos - 1) \in Positions(cl), pos |-> pos - 1, x |-> CHUNK_WIDTH - 1]
       ELSE IF nx >= CHUNK_WIDTH
       THEN [ok |-> (pos + 1) \in Positions(cl), pos |-> pos + 1, x |-> 0]
       ELSE [ok |-> TRUE, pos |-> pos, x |-> nx]

\* can_flow_left / can_flow_right of _flow_sideways.
CanFlowInto(b, side, y) ==
    /\ side.ok
    /\ TileAt(b, side.pos, side.x, y).block_type \in {"Poppy", "Air", "OakLog"}

\* FlowInto writing the distance of the tile the water comes from.
FlowIntoMutant(st, side, y, distance) ==
    [st EXCEPT !.b = SetTile(st.b, side.pos, side.x, y, Block("Water", distance - 1)),
               !.updated = @ \cup {<<side.pos, side.x, y>>}]

\* FlowInto that does not add the new tile to updated_blocks.
FlowIntoUnmarkedMutant(st, side, y, distance) ==
    [st EXCEPT !.b = SetTile(st.b, side.pos, side.x, y, Block("Water", distance))]

\* The writes of _flow_sideways into the tile on one side.
FlowInto(st, side, y, distance) ==
    [st EXCEPT !.b = SetTile(st.b, side.pos, side.x, y, Block("Water", distance)),
               !.updated = @ \cup {<<side.pos, side.x, y>>}]

\* The limit test one tile early.
AtSpreadLimitEarlyMutant(distance) == distance >= MAX_SPREAD_DISTANCE - 1

\* The limit test with > in place of >=.
AtSpreadLimitMutant(distance) == distance > MAX_SPREAD_DISTANCE

\* current_distance >= MAX_SPREAD_DISTANCE, the limit test of _flow_sideways.
AtSpreadLimit(distance) == distance >= MAX_SPREAD_DISTANCE

\* WaterSimulation._flow_sideways
flow_sideways(st0, cl, pos, x, y) ==
    LET current_distance == TileAt(st0.b, pos, x, y).water_distance
        has_space_below ==
            /\ y < CHUNK_HEIGHT - 1
            /\ TileAt(st0.b, pos, x, y + 1).block_type = "Air"
        st == IF has_space_below /\ AtSpreadLimit(current_distance)
              THEN flow_downward(st0, pos, x, y)
              ELSE st0
        left == SideCell(cl, pos, x, -1)
        right == SideCell(cl, pos, x, 1)
        can_flow_left == CanFlowInto(st.b, left, y)
        can_flow_right == CanFlowInto(st.b, right, y)
    IN IF ~has_space_below /\ AtSpreadLimit(current_distance) THEN st0
       ELSE IF can_flow_left /\ can_flow_right
       THEN FlowInto(FlowInto(st, left, y, current_distance + 1),
                     right, y, current_distance + 1)
       ELSE IF can_flow_left THEN FlowInto(st, left, y, current_distance + 1)
       ELSE IF can_flow_right THEN FlowInto(st, right, y, current_distance + 1)
       ELSE st

\* UpdateCell without the `continue` after a downward flow.
UpdateCellMutant(st, cl, c) ==
    IF ~IsWater(st.b, c[1], c[2], c[3]) \/ c \in st.updated THEN st
    ELSE LET marked == [st EXCEPT !.updated = @ \cup {c}]
             down == flow_downward(marked, c[1], c[2], c[3])
         IN flow_sideways(down, cl, c[1], c[2], c[3])

\* The body of the loops of _update_chunk_water for one cell.
UpdateCell(st, cl, c) ==
    IF ~IsWater(st.b, c[1], c[2], c[3]) \/ c \in st.updated THEN st
    ELSE LET marked == [st EXCEPT !.updated = @ \cup {c}]
             down == flow_downward(marked, c[1], c[2], c[3])
         IN IF down.flowed THEN down
            ELSE flow_sideways(down, cl, c[1], c[2], c[3])

\* The loops of _update_chunk_water over the chunks of update_water, after
\* the cell of scan place key: the scan goes on with the next cell that is
\* Water when the scan reaches it.
RECURSIVE ScanFrom(_, _, _)
ScanFrom(st, cl, key) ==
    LET later == {c \in DOMAIN st.b : /\ st.b[c].block_type = "Water"
                                      /\ c[1] \in Positions(cl)
                                      /\ ScanKey(cl, c) > key}
    IN IF later = {} THEN st
       ELSE LET first == CHOOSE c \in later :
                             \A d \in later : ScanKey(cl, c) <= ScanKey(cl, d)
            IN ScanFrom(UpdateCell(st, cl, first), cl, ScanKey(cl, first))

\* WaterSimulation.update_water
update_water(b, cl) ==
    ScanFrom([b |-> b, updated |-> {}, flowed |-> FALSE], cl, -1).b

\* place_water_source creating a tile of distance 1.
PlaceWaterSourceMutant(b, pos, x, y) ==
    IF ~InGrid(x, y) THEN b ELSE SetTile(b, pos, x, y, Block("Water", 1))

\* WaterSimulation.place_water_source
place_water_source(b, pos, x, y) ==
    IF ~InGrid(x, y) THEN b ELSE SetTile(b, pos, x, y, Block("Water", 0))

\* The neighbours that remove_connected_water queues from the cell (pos, x, y),
\* in the order of its directions.
Directions == <<<<0, -1>>, <<0, 1>>, <<-1, 0>>, <<1, 0>>>>

QueuedNeighbour(b, cl, pos, x, y, dir) ==
    LET side == IF dir[1] = 0 THEN [ok |-> TRUE, pos |-> pos, x |-> x]
                ELSE SideCell(cl, pos, x, dir[1])
        next_y == y + dir[2]
    IN IF side.ok /\ InGrid(side.x, next_y) /\ IsWater(b, side.pos, side.x, next_y)
       THEN <<<<side.pos, side.x, next_y>>>>
       ELSE <<>>

\* A search that does not stop at source tiles.
SkipsSourceMutant(tile) == FALSE

\* Whether the search of remove_connected_water stops at a source tile.
SkipsSource(tile) == tile.water_distance = 0

\* WaterSimulation.remove_connected_water: the loop over the queue.
RECURSIVE RemoveLoop(_, _, _, _)
RemoveLoop(b, cl, visited, queue) ==
    IF queue = <<>> THEN b
    ELSE LET c == Head(queue)
             rest == Tail(queue)
         IN IF c \in visited THEN RemoveLoop(b, cl, visited, rest)
            ELSE IF ~InGrid(c[2], c[3]) \/ ~IsWater(b, c[1], c[2], c[3])
            THEN RemoveLoop(b, cl, visited \cup {c}, rest)
            ELSE IF SkipsSource(TileAt(b, c[1], c[2], c[3]))
            THEN RemoveLoop(b, cl, visited \cup {c}, rest)
            ELSE LET cleared == SetTile(b, c[1], c[2], c[3], AirTile)
                     more == QueuedNeighbour(cleared, cl, c[1], c[2], c[3], Directions[1])
                             \o QueuedNeighbour(cleared, cl, c[1], c[2], c[3], Directions[2])
                             \o QueuedNeighbour(cleared, cl, c[1], c[2], c[3], Directions[3])
                             \o QueuedNeighbour(cleared, cl, c[1], c[2], c[3], Directions[4])
                 IN RemoveLoop(cleared, cl, visited \cup {c}, rest \o more)

remove_connected_water(b, cl, pos, x, y) ==
    RemoveLoop(b, cl, {}, <<<<pos, x, y>>>>)

----------------------------------------------------------------------------
(* Breaking and placing: world/BlockInteraction.py *)

\* get_block_at_position that rounds the chunk index toward zero.
GetBlockAtPositionTruncMutant(screen_x, screen_y, cam, cl) ==
    LET world_x == screen_x + cam.x
        world_y == screen_y + cam.y
        chunk_x == IF world_x < 0 THEN -((-world_x) \div CW) ELSE world_x \div CW
        block_x == (world_x % CW) \div BS
        block_y == world_y \div BS
    IN [found |-> chunk_x \in Positions(cl) /\ InGrid(block_x, block_y),
        chunk |-> chunk_x, block_x |-> block_x, block_y |-> block_y]

\* get_block_at_position without the test of the row bounds.
GetBlockAtPositionMutant(screen_x, screen_y, cam, cl) ==
    LET world_x == screen_x + cam.x
        world_y == screen_y + cam.y
        chunk_x == world_x \div CW
        block_x == (world_x % CW) \div BS
        block_y == world_y \div BS
    IN [found |-> chunk_x \in Positions(cl),
        chunk |-> chunk_x, block_x |-> block_x, block_y |-> block_y]

\* BlockInteraction.get_block_at_position: the chunk position, column and row
\* under the screen point, and whether a tile of the window is there.
get_block_at_position(screen_x, screen_y, cam, cl) ==
    LET world_x == screen_x + cam.x
        world_y == screen_y + cam.y
        chunk_x == world_x \div CW
        block_x == (world_x % CW) \div BS
        block_y == world_y \div BS
    IN [found |-> chunk_x \in Positions(cl) /\ InGrid(block_x, block_y),
        chunk |-> chunk_x, block_x |-> block_x, block_y |-> block_y]

\* The reach test with < in place of <=.
IsWithinReachMutant(p, block_x, block_y, pos) ==
    LET block_center_x == pos * CW + block_x * BS + (BS \div 2)
        block_center_y == block_y * BS + (BS \div 2)
        dx == p.x + (PLAYER_WIDTH \div 2) - block_center_x
        dy == p.y + (PLAYER_HEIGHT \div 2) - block_center_y
    IN dx * dx + dy * dy < (MAX_REACH * BS) * (MAX_REACH * BS)

\* BlockInteraction.is_within_reach: the distance between the centres, in
\* tiles, is at most MAX_REACH.
is_within_reach(p, block_x, block_y, pos) ==
    LET block_center_x == pos * CW + block_x * BS + (BS \div 2)
        block_center_y == block_y * BS + (BS \div 2)
        dx == p.x + (PLAYER_WIDTH \div 2) - block_center_x
        dy == p.y + (PLAYER_HEIGHT \div 2) - block_center_y
    IN dx * dx + dy * dy <= (MAX_REACH * BS) * (MAX_REACH * BS)

\* The first test of break_block without the Bedrock case.
UnbreakableMutant(block) == block.block_type = "Air"

\* break_block, line 126: Air and Bedrock are not broken.
Unbreakable(block) == block.block_type = "Air" \/ block.block_type = "Bedrock"

\* A break that yields the tile's own type for every type.
BrokenTypeMutant(block_type) == block_type

\* break_block, lines 133 and 161-174: the type returned for a broken tile
\* that is not Water.
BrokenType(block_type) ==
    IF block_type = "Stone" THEN "CobbleStone" ELSE block_type

\* BlockInteraction.break_block: the grid after the call and the type returned.
break_block(b, mouse_x, mouse_y, cam, cl, p) ==
    LET at == get_block_at_position(mouse_x, mouse_y, cam, cl)
        block == TileAt(b, at.chunk, at.block_x, at.block_y)
        cleared(g) == SetTile(g, at.chunk, at.block_x, at.block_y, AirTile)
    IN IF ~at.found \/ Unbreakable(block)
       THEN [b |-> b, result |-> "Air"]
       ELSE IF ~is_within_reach(p, at.block_x, at.block_y, at.chunk)
       THEN [b |-> b, result |-> "Air"]
       ELSE IF block.block_type = "Water"
       THEN IF block.water_distance = 0
            THEN [b |-> cleared(remove_connected_water(b, cl, at.chunk,
                                                       at.block_x, at.block_y)),
                  result |-> "Water"]
            ELSE [b |-> cleared(b), result |-> "Air"]
       ELSE [b |-> cleared(b), result |-> BrokenType(block.block_type)]

\* place_block without the test that the target tile is Air.
PlaceBlockMutant(b, mouse_x, mouse_y, cam, cl, p, block_type) ==
    LET at == get_block_at_position(mouse_x, mouse_y, cam, cl)
    IN IF ~at.found THEN [b |-> b, result |-> FALSE]
       ELSE IF ~is_within_reach(p, at.block_x, at.block_y, at.chunk)
       THEN [b |-> b, result |-> FALSE]
       ELSE IF block_type = "Water"
       THEN [b |-> place_water_source(b, at.chunk, at.block_x, at.block_y),
             result |-> TRUE]
       ELSE [b |-> SetTile(b, at.chunk, at.block_x, at.block_y, Block(block_type, 0)),
             result |-> TRUE]

\* BlockInteraction.place_block: the grid after the call and the value returned.
place_block(b, mouse_x, mouse_y, cam, cl, p, block_type) ==
    LET at == get_block_at_position(mouse_x, mouse_y, cam, cl)
        block == TileAt(b, at.chunk, at.block_x, at.block_y)
        player_chunk_x == p.x \div CW
        player_block_x == (p.x % CW) \div BS
        player_block_y == p.y \div BS
        player_block_y_bottom == (p.y + PLAYER_HEIGHT - PX) \div BS
    IN IF ~at.found THEN [b |-> b, result |-> FALSE]
       ELSE IF block.block_type # "Air" THEN [b |-> b, result |-> FALSE]
       ELSE IF ~is_within_reach(p, at.block_x, at.block_y, at.chunk)
       THEN [b |-> b, result |-> FALSE]
       ELSE IF /\ at.chunk = player_chunk_x
               /\ at.block_x = player_block_x
               /\ (at.block_y = player_block_y \/ at.block_y = player_block_y_bottom)
       THEN [b |-> b, result |-> FALSE]
       ELSE IF block_type = "Water"
       THEN [b |-> place_water_source(b, at.chunk, at.block_x, at.block_y),
             result |-> TRUE]
       ELSE [b |-> SetTile(b, at.chunk, at.block_x, at.block_y, Block(block_type, 0)),
             result |-> TRUE]

----------------------------------------------------------------------------
(* Inventory: world/Inventory.py. collected_blocks is the dictionary as the *)
(* sequence of its entries in insertion order.                              *)

AVAILABLE_BLOCKS ==
    {"Grass", "Dirt", "Stone", "OakLog", "Iron", "Leaves", "Coal", "Gold",
     "Diamond", "OakPlank", "CobbleStone"}

\* The position of key block_type in the dictionary, 0 when it is no key.
RECURSIVE KeyIndexFrom(_, _, _)
KeyIndexFrom(collected_blocks, block_type, i) ==
    IF i > Len(collected_blocks) THEN 0
    ELSE IF collected_blocks[i].block_type = block_type THEN i
    ELSE KeyIndexFrom(collected_blocks, block_type, i + 1)

KeyIndex(collected_blocks, block_type) == KeyIndexFrom(collected_blocks, block_type, 1)

\* Inventory._update_selected_block
update_selected_block(inv) ==
    IF Len(inv.collected_blocks) > 0
    THEN [inv EXCEPT !.selected_index = 0,
                     !.selected_block = inv.collected_blocks[1].block_type]
    ELSE [inv EXCEPT !.selected_index = 0, !.selected_block = "Air"]

\* Inventory.__init__
NewInventory ==
    update_selected_block([collected_blocks |-> <<>>, selected_block |-> "Air",
                           selected_index |-> 0])

\* Inventory.add_block. The test of line 58 compares the method select_block
\* (not the field selected_block) with AIR, which is never equal: the
\* selection is not touched.
add_block(inv, block_type, quantity) ==
    LET k == KeyIndex(inv.collected_blocks, block_type)
    IN IF block_type \notin AVAILABLE_BLOCKS THEN inv
       ELSE IF k # 0
       THEN [inv EXCEPT !.collected_blocks[k].quantity = @ + quantity]
       ELSE [inv EXCEPT !.collected_blocks =
                 Append(@, [block_type |-> block_type, quantity |-> quantity])]

\* The dictionary without its entry at position k (del collected_blocks[...]).
DeleteKey(collected_blocks, k) ==
    SubSeq(collected_blocks, 1, k - 1)
        \o SubSeq(collected_blocks, k + 1, Len(collected_blocks))

\* remove_block without the test that enough blocks are held.
RemoveBlockUncheckedMutant(inv, block_type, quantity) ==
    LET k == KeyIndex(inv.collected_blocks, block_type)
    IN IF k # 0
       THEN [inv |-> [inv EXCEPT !.collected_blocks[k].quantity = @ - quantity],
             result |-> TRUE]
       ELSE [inv |-> inv, result |-> FALSE]

\* remove_block that keeps the entry of a type whose quantity reached zero.
RemoveBlockMutant(inv, block_type, quantity) ==
    LET k == KeyIndex(inv.collected_blocks, block_type)
    IN IF k # 0 /\ inv.collected_blocks[k].quantity >= quantity
       THEN [inv |-> [inv EXCEPT !.collected_blocks[k].quantity = @ - quantity],
             result |-> TRUE]
       ELSE [inv |-> inv, result |-> FALSE]

\* Inventory.remove_block: the inventory after the call and the value returned.
remove_block(inv, block_type, quantity) ==
    LET k == KeyIndex(inv.collected_blocks, block_type)
    IN IF k # 0 /\ inv.collected_blocks[k].quantity >= quantity
       THEN LET less == [inv EXCEPT !.collected_blocks[k].quantity = @ - quantity]
            IN IF less.collected_blocks[k].quantity <= 0
               THEN LET gone == [less EXCEPT !.collected_blocks = DeleteKey(@, k)]
                    IN [inv |-> IF block_type = inv.selected_block
                                THEN update_selected_block(gone) ELSE gone,
                        result |-> TRUE]
               ELSE [inv |-> less, result |-> TRUE]
       ELSE [inv |-> inv, result |-> FALSE]

\* Inventory.select_block
select_block(inv, index) ==
    IF 0 <= index /\ index < Len(inv.collected_blocks)
    THEN [inv EXCEPT !.selected_index = index,
                     !.selected_block = inv.collected_blocks[index + 1].block_type]
    ELSE inv

\* Inventory.select_next_block
select_next_block(inv) ==
    IF Len(inv.collected_blocks) > 0
    THEN LET index == (inv.selected_index + 1) % Len(inv.collected_blocks)
         IN [inv EXCEPT !.selected_index = index,
                        !.selected_block = inv.collected_blocks[index + 1].block_type]
    ELSE inv

\* Inventory.select_previous_block
select_previous_block(inv) ==
    IF Len(inv.collected_blocks) > 0
    THEN LET index == (inv.selected_index - 1) % Len(inv.collected_blocks)
         IN [inv EXCEPT !.selected_index = index,
                        !.selected_block = inv.collected_blocks[index + 1].block_type]
    ELSE inv

\* Inventory.has_block
has_block(inv, block_type) ==
    LET k == KeyIndex(inv.collected_blocks, block_type)
    IN k # 0 /\ inv.collected_blocks[k].quantity > 0

\* Inventory.get_block_count
get_block_count(inv, block_type) ==
    LET k == KeyIndex(inv.collected_blocks, block_type)
    IN IF k = 0 THEN 0 ELSE inv.collected_blocks[k].quantity

----------------------------------------------------------------------------
(* Crafting: world/CraftingRecipes.py. The inputs of a recipe are the      *)
(* entries of its dictionary in insertion order.                            *)

RECIPES ==
    << [name |-> "Oak Planks",
        inputs |-> << [block_type |-> "OakLog", quantity |-> 1] >>,
        output |-> [block_type |-> "OakPlank", quantity |-> 4]],
       [name |-> "Stone",
        inputs |-> << [block_type |-> "CobbleStone", quantity |-> 1] >>,
        output |-> [block_type |-> "Stone", quantity |-> 1]],
       [name |-> "Iron Block",
        inputs |-> << [block_type |-> "Iron", quantity |-> 9] >>,
        output |-> [block_type |-> "IronBlock", quantity |-> 1]],
       [name |-> "Gold Block",
        inputs |-> << [block_type |-> "Gold", quantity |-> 9] >>,
        output |-> [block_type |-> "GoldBlock", quantity |-> 1]],
       [name |-> "Diamond Block",
        inputs |-> << [block_type |-> "Diamond", quantity |-> 9] >>,
        output |-> [block_type |-> "DiamondBlock", quantity |-> 1]],
       [name |-> "Coal Block",
        inputs |-> << [block_type |-> "Coal", quantity |-> 9] >>,
        output |-> [block_type |-> "CoalBlock", quantity |-> 1]] >>

\* CraftingRecipes.can_craft
can_craft(recipe, inv) ==
    \A i \in DOMAIN recipe.inputs :
        /\ has_block(inv, recipe.inputs[i].block_type)
        /\ get_block_count(inv, recipe.inputs[i].block_type)
               >= recipe.inputs[i].quantity

\* The loop of craft_item over the inputs of the recipe, from input i on.
RECURSIVE ConsumeInputs(_, _, _)
ConsumeInputs(inv, inputs, i) ==
    IF i > Len(inputs) THEN inv
    ELSE ConsumeInputs(remove_block(inv, inputs[i].block_type,
                                    inputs[i].quantity).inv, inputs, i + 1)

\* CraftingRecipes.craft_item: the inventory after the call and the value
\* returned.
craft_item(recipe, inv) ==
    IF ~can_craft(recipe, inv) THEN [inv |-> inv, result |-> FALSE]
    ELSE [inv |-> add_block(ConsumeInputs(inv, recipe.inputs, 1),
                            recipe.output.block_type, recipe.output.quantity),
          result |-> TRUE]

----------------------------------------------------------------------------
(* Chunk generation: Chunk.generate_chunks (world/Chunk.py) and the ore     *)
(* veins of world/Block.py. The chunk under construction is the record gen: *)
(* height[x] is the height drawn for column x in the first pass, changed    *)
(* maps the cells <<x, y>> written after the first pass to their tile, and  *)
(* every other cell holds what get_block_type gave it. Probabilities are    *)
(* counted in percent and depths in tenths of the chunk height.             *)

MIN_TREE_TRUNK_HEIGHT == 4
MAX_TREE_TRUNK_HEIGHT == 6
POND_MIN_SIZE == 3
POND_MAX_SIZE == 8
DIAMOND_CHANCE == 15
GOLD_CHANCE == 25
IRON_CHANCE == 30
IRON_DEPTH == 4
GOLD_DEPTH == 6
DIAMOND_DEPTH == 8

\* COAL_VEIN_SIZE, IRON_VEIN_SIZE, GOLD_VEIN_SIZE, DIAMOND_VEIN_SIZE
VEIN_SIZE ==
    [Coal |-> <<9, 20>>, Iron |-> <<3, 12>>, Gold |-> <<3, 12>>,
     Diamond |-> <<1, 9>>]

\* get_block_type with the Dirt layer one row deeper.
GetBlockTypeMutant(height, y) ==
    IF y = 191 THEN "Bedrock"
    ELSE IF y > height + 31 THEN "Stone"
    ELSE IF y > height + 27 THEN "Dirt"
    ELSE IF y = height + 27 THEN "Grass"
    ELSE "Air"

\* Block.get_block_type
get_block_type(height, y) ==
    IF y = 191 THEN "Bedrock"
    ELSE IF y > height + 30 THEN "Stone"
    ELSE IF y > height + 27 THEN "Dirt"
    ELSE IF y = height + 27 THEN "Grass"
    ELSE "Air"

\* int(8 + sin(0.3 * x) * 2 + u) for the columns x = 0..63 of the chunk at
\* position 0 and u = -0.5; with u drawn from [-0.5, 0.5] the height of a
\* column is this number or one more.
SurfaceBase ==
    <<7, 8, 8, 9, 9, 9, 9, 9, 8, 8, 7, 7, 6, 6, 5, 5,
      5, 5, 5, 6, 6, 7, 8, 8, 9, 9, 9, 9, 9, 8, 8, 7,
      7, 6, 6, 5, 5, 5, 5, 5, 6, 6, 7, 8, 8, 9, 9, 9,
      9, 9, 8, 8, 7, 7, 6, 6, 5, 5, 5, 5, 5, 6, 7, 7>>

Columns == 0 .. CHUNK_WIDTH - 1

\* The chunk before generate_chunks.
NoGen ==
    [phase |-> "new", height |-> [x \in Columns |-> 0], changed |-> << >>,
     scan |-> -1, col |-> -1, features |-> 0,
     ore_type |-> "Air", size |-> 0, vein_blocks |-> {}, frontier |-> << >>]

\* chunk.blocks[y][x] of the chunk under construction
ChunkTile(g, x, y) ==
    IF <<x, y>> \in DOMAIN g.changed THEN g.changed[<<x, y>>]
    ELSE Block(get_block_type(g.height[x], y), 0)

\* chunk.blocks[c[2]][c[1]] = tile
Put(changed, c, tile) ==
    [d \in DOMAIN changed \cup {c} |-> IF d = c THEN tile ELSE changed[d]]

\* place_ore_veins, lines 196-212: the ore of a vein started at row y when
\* random() gave r percent.
choose_ore(y, r) ==
    IF 10 * y > DIAMOND_DEPTH * CHUNK_HEIGHT /\ r < DIAMOND_CHANCE
    THEN "Diamond"
    ELSE IF 10 * y > GOLD_DEPTH * CHUNK_HEIGHT
            /\ r < DIAMOND_CHANCE + GOLD_CHANCE
    THEN "Gold"
    ELSE IF 10 * y > IRON_DEPTH * CHUNK_HEIGHT
            /\ r < DIAMOND_CHANCE + GOLD_CHANCE + IRON_CHANCE
    THEN "Iron"
    ELSE "Coal"

\* The sizes min_size + int(random() ** 2 * size_range) of a vein of ore_type.
VeinSizes(ore_type) ==
    LET min_size == VEIN_SIZE[ore_type][1]
        size_range == VEIN_SIZE[ore_type][2] - min_size
    IN {min_size + i : i \in 0 .. size_range - 1}

\* The expansion directions of the flood fill, diagonals included.
FloodDirections ==
    << <<-1, -1>>, <<-1, 0>>, <<-1, 1>>, <<0, -1>>, <<0, 1>>,
       <<1, -1>>, <<1, 0>>, <<1, 1>> >>

InFrontier(frontier, c) == \E i \in DOMAIN frontier : frontier[i] = c

\* frontier.pop(k)
PopAt(frontier, k) ==
    SubSeq(frontier, 1, k - 1) \o SubSeq(frontier, k + 1, Len(frontier))

\* The loop over the directions around the converted tile (x, y), from
\* direction i on; chosen holds the directions whose random test succeeds.
RECURSIVE Spread(_, _, _, _, _)
Spread(g, x, y, chosen, i) ==
    IF i > Len(FloodDirections) THEN g
    ELSE LET n == <<x + FloodDirections[i][1], y + FloodDirections[i][2]>>
         IN IF n \notin g.vein_blocks /\ ~InFrontier(g.frontier, n)
               /\ i \in chosen
            THEN Spread([g EXCEPT !.frontier = Append(@, n),
                                  !.vein_blocks = @ \cup {n}],
                        x, y, chosen, i + 1)
            ELSE Spread(g, x, y, chosen, i + 1)

\* The conversion test without the test of the tile's type.
ConvertibleMutant(g, c, allowed) == InGrid(c[1], c[2])

\* The conversion test of generate_ore_vein (lines 149-151) and of
\* generate_pond (lines 214-216).
Convertible(g, c, allowed) ==
    /\ InGrid(c[1], c[2])
    /\ ChunkTile(g, c[1], c[2]).block_type \in allowed

\* One iteration of the flood fill: the point at index k of the frontier is
\* popped and, if it can be converted, becomes tile and spreads.
FloodStep(g, k, chosen, allowed, tile) ==
    LET c == g.frontier[k]
        popped == [g EXCEPT !.frontier = PopAt(@, k)]
    IN IF Convertible(popped, c, allowed)
       THEN Spread([popped EXCEPT !.changed = Put(@, c, tile)],
                   c[1], c[2], chosen, 1)
       ELSE popped

\* The test of the while loop of the flood fill.
FloodContinues(g) ==
    Cardinality(g.vein_blocks) < g.size /\ g.frontier # << >>

\* The flood fill goes on, or returns to the pass that called it.
FloodReturn(g, phase) ==
    IF FloodContinues(g) THEN g
    ELSE [g EXCEPT !.phase = phase, !.ore_type = "Air", !.size = 0,
                   !.vein_blocks = {}, !.frontier = << >>]

\* generate_ore_vein up to the loop
start_ore_vein(g, ore_type, start_x, start_y, size) ==
    FloodReturn([g EXCEPT !.phase = "vein", !.ore_type = ore_type,
                          !.size = size,
                          !.vein_blocks = {<<start_x, start_y>>},
                          !.frontier = << <<start_x, start_y>> >>], "ores")

\* One iteration of the loop of generate_ore_vein
ore_vein_step(g, k, chosen) ==
    FloodReturn(FloodStep(g, k, chosen, {"Stone"}, Block(g.ore_type, 0)),
                "ores")

\* generate_pond up to the loop; pond_blocks is kept in vein_blocks.
start_pond(g, center_x, center_y, pond_size) ==
    FloodReturn([g EXCEPT !.phase = "pond", !.size = pond_size,
                          !.vein_blocks = {<<center_x, center_y>>},
                          !.frontier = << <<center_x, center_y>> >>],
                "features")

\* One iteration of the loop of generate_pond
pond_step(g, k, chosen) ==
    FloodReturn(FloodStep(g, k, chosen, {"Grass", "Dirt"}, Block("Water", 0)),
                "features")

\* The cells place_tree makes Leaves around the tree of column x whose
\* leaves are centred on row leaf_start.
LeafCells(g, x, leaf_start) ==
    {c \in {<<leaf_x, leaf_y>> : leaf_x \in x - 2 .. x + 2,
                                 leaf_y \in leaf_start - 2 .. leaf_start + 1} :
        LET dy == IF c[2] >= leaf_start THEN c[2] - leaf_start
                  ELSE leaf_start - c[2]
            dx == IF c[1] >= x THEN c[1] - x ELSE x - c[1]
        IN /\ dx <= Min(2, 3 - dy)
           /\ InGrid(c[1], c[2])
           /\ ChunkTile(g, c[1], c[2]).block_type \in {"Air", "Leaves"}
           /\ dx + dy < 4}

\* Chunk.place_tree
place_tree(g, x, y, trunk_height) ==
    IF y - 7 < 0 \/ x < 2 \/ x > CHUNK_WIDTH - 3 THEN g
    ELSE LET trunk == {<<x, y - i>> : i \in {j \in 1 .. trunk_height : y - j >= 0}}
             with_trunk ==
                 [g EXCEPT !.changed =
                     [d \in DOMAIN @ \cup trunk |->
                         IF d \in trunk THEN Block("OakLog", 0) ELSE @[d]]]
             leaves == LeafCells(with_trunk, x, y - trunk_height - 2)
         IN [with_trunk EXCEPT !.changed =
                [d \in DOMAIN @ \cup leaves |->
                    IF d \in leaves THEN Block("Leaves", 0) ELSE @[d]]]

\* Chunk.place_poppy
place_poppy(g, x, y) == [g EXCEPT !.changed = Put(@, <<x, y>>, Block("Poppy", 0))]

\* Chunk.place_pumpkin
place_pumpkin(g, x, y) ==
    [g EXCEPT !.changed = Put(@, <<x, y>>, Block("Pumpkin", 0))]

----------------------------------------------------------------------------
(* Mouse: input/Mouse.py. An event is a record [type, button] with type    *)
(* "MOUSEBUTTONDOWN" or "MOUSEBUTTONUP" and button 1 (left), 2 (middle) or  *)
(* 3 (right).                                                               *)

\* Mouse.__init__
NewMouse ==
    [right_click |-> FALSE, left_click |-> FALSE,
     right_click_event |-> FALSE, left_click_event |-> FALSE, frame |-> << >>]

\* Mouse.handle_events
handle_events(m, event) ==
    LET down == event.type = "MOUSEBUTTONDOWN"
    IN [m EXCEPT
           !.left_click = IF event.button = 1 THEN down ELSE @,
           !.left_click_event = down /\ event.button = 1,
           !.right_click = IF event.button = 3 THEN down ELSE @,
           !.right_click_event = down /\ event.button = 3,
           !.frame = Append(@, event)]

\* Mouse.reset_click_events
reset_click_events(m) ==
    [m EXCEPT !.left_click_event = FALSE, !.right_click_event = FALSE,
              !.frame = << >>]

----------------------------------------------------------------------------
(* Camera: Camera.py *)

VIEW_WIDTH == 48 * 24 * PX
VIEW_HEIGHT == 48 * 16 * PX

\* Camera.center_on_player
center_on_player(p) ==
    [x |-> p.x + (PLAYER_WIDTH \div 2) - (VIEW_WIDTH \div 2),
     y |-> p.y + (PLAYER_HEIGHT \div 2) - (VIEW_HEIGHT \div 2)]

----------------------------------------------------------------------------
(* The game tick: Game.update, engine/Update.py, entity/Gravity.py *)

TERMINAL_VELOCITY == 1000
JUMP_VELOCITY == -375
WATER_MOVEMENT_SPEED == 300

EmptyBlocks == [c \in {} |-> AirTile]

NoHist ==
    [op |-> "none", b |-> EmptyBlocks, cell |-> <<0, 0, 0>>, result |-> "Air",
     inv |-> NewInventory, quantity |-> 0, ok |-> TRUE]

\* update_input: the left / right keys move x_change by speed * dt (dt in
\* milliseconds, dir = -1, 0, 1 for left, none or both, right); apply_gravity
\* moves y_change by vertical_velocity * dt, the velocity lying between the
\* jump velocity and the terminal velocity.
UpdateInput(dir, dt, dy) ==
    LET speed == IF player.in_water THEN WATER_MOVEMENT_SPEED ELSE MOVEMENT_SPEED
    IN /\ pc = "control"
       /\ dy * 1000 <= TERMINAL_VELOCITY * dt * PX
       /\ dy * 1000 >= JUMP_VELOCITY * dt * PX
       /\ player' = [player EXCEPT
                        !.x_change = @ + dir * ((speed * dt * PX) \div 1000),
                        !.y_change = @ + dy]
       /\ pc' = "physics"
       /\ UNCHANGED <<chunk_list, blocks, camera, prev, hist, inventory, gen, mouse>>

\* Game.update, lines 93-97: the physics step, then the camera follows.
UpdatePlayerPosition ==
    /\ pc = "physics"
    /\ player' = update_player_position(blocks, chunk_list, player)
    /\ camera' = center_on_player(player')
    /\ prev' = player
    /\ pc' = "load"
    /\ UNCHANGED <<chunk_list, blocks, hist, inventory, gen, mouse>>

\* LoadChunks with chunks that outlive their stay in the window.
LoadChunksMutant ==
    /\ pc = "load"
    /\ chunk_list' = load_chunks(chunk_list)
    /\ blocks' = blocks
    /\ pc' = "control"
    /\ prev' = NewPlayer(0, 0)
    /\ UNCHANGED <<player, camera, hist, inventory, gen, mouse>>

\* Game.update, line 100: load_chunks(self.chunk_list, self.player)
LoadChunks ==
    /\ pc = "load"
    /\ chunk_list' = load_chunks(chunk_list)
    /\ blocks' = [c \in {d \in DOMAIN blocks : d[1] \in Positions(chunk_list')}
                    |-> blocks[c]]
    /\ pc' = "control"
    /\ prev' = NewPlayer(0, 0)
    /\ UNCHANGED <<player, camera, hist, inventory, gen, mouse>>

----------------------------------------------------------------------------
(* Specification of the chunk window: the player runs left and right *)
(* through an empty world, with frame times long and short.           *)

InitWindow ==
    /\ chunk_list = InitialWindow
    /\ blocks = EmptyBlocks
    /\ player = NewPlayer(0, 0)
    /\ camera = [x |-> 0, y |-> 0]
    /\ pc = "control"
    /\ prev = NewPlayer(0, 0)
    /\ hist = NoHist
    /\ inventory = NewInventory
    /\ gen = NoGen
    /\ mouse = NewMouse

RunInput ==
    \E dir \in {-1, 1}, dt \in DtChoices :
        /\ UpdateInput(dir, dt, 0)
        /\ player'.x_change <= MaxChunk * CW
        /\ player'.x_change >= -(MaxChunk * CW)

NextWindow == RunInput \/ UpdatePlayerPosition \/ LoadChunks

SpecWindow == InitWindow /\ [][NextWindow]_vars

----------------------------------------------------------------------------
(* Specification of the physics step: the player moves by small steps   *)
(* among a few Stone tiles of chunk 0 (two floor tiles, one tile under   *)
(* the floor, one wall tile), every subset of them being a layout.       *)

ArenaCols == 4
ArenaRows == 7
PhysDt == {64, 128}
PhysDy == {-192, 0, 128, 448}
PhysCells == {<<0, 1, 5>>, <<0, 2, 5>>, <<0, 1, 6>>, <<0, 3, 4>>}
PhysStarts == {<<384, 1024>>, <<384, 704>>}

\* The tile at cell c, as the box the collision code gives it.
TileBox(c) == [x |-> c[1] * CW + c[2] * BS, y |-> c[3] * BS]

Solid(b, c) == TileAt(b, c[1], c[2], c[3]).block_type \notin NonSolid

\* The entity's box at (x, y) overlaps the box of the tile at cell c.
Overlaps(x, y, c) == check_collision(TileBox(c), x, y, PLAYER_WIDTH, PLAYER_HEIGHT)

InitPhys ==
    /\ chunk_list = InitialWindow
    /\ \E S \in SUBSET PhysCells : blocks = [c \in S |-> Block("Stone", 0)]
    /\ \E s \in PhysStarts : player = NewPlayer(s[1], s[2])
    /\ \A c \in DOMAIN blocks : ~Overlaps(player.x, player.y, c)
    /\ camera = center_on_player(player)
    /\ pc = "control"
    /\ prev = NewPlayer(0, 0)
    /\ hist = NoHist
    /\ inventory = NewInventory
    /\ gen = NoGen
    /\ mouse = NewMouse

PhysInput ==
    \E dir \in {-1, 0, 1}, dt \in PhysDt, dy \in PhysDy :
        /\ UpdateInput(dir, dt, dy)
        /\ player'.x_change >= 0
        /\ player'.x_change <= ArenaCols * BS
        /\ player'.y_change >= 0
        /\ player'.y_change <= ArenaRows * BS

NextPhys == PhysInput \/ UpdatePlayerPosition \/ LoadChunks

SpecPhys == InitPhys /\ [][NextPhys]_vars

----------------------------------------------------------------------------
(* Specification of the water automaton: a well of Stone in chunk 0, one   *)
(* tile wide and nine deep (column 10, rows 50..58, floor at row 59), with  *)
(* an Air pocket on its right at row 56 and on its left at row 57; the      *)
(* player stands on the rim and places and breaks tiles in the well while   *)
(* update_water runs.                                                       *)

WellSource == <<0, 10, 50>>
WellCol == WellSource[2]
WellTop == WellSource[3]
WellDepth == 9
WellFloor == WellTop + WellDepth

WellStone ==
    ({<<0, x, y>> : x \in {WellCol - 1, WellCol + 1}, y \in WellTop..(WellFloor - 1)}
        \ {<<0, WellCol + 1, WellFloor - 3>>, <<0, WellCol - 1, WellFloor - 2>>})
    \cup {<<0, WellCol, WellFloor>>,
          <<0, WellCol + 2, WellFloor - 3>>, <<0, WellCol - 2, WellFloor - 2>>}

PoppyCell == <<0, WellCol, WellTop + 1>>

PlaceCells == {<<0, WellCol, WellTop>>, <<0, WellCol, WellTop + 4>>}
BreakCells == {<<0, WellCol, WellTop>>, <<0, WellCol, WellTop + 2>>,
               <<0, WellCol, WellTop + 4>>, <<0, WellCol, WellTop + 7>>}

\* The screen point over the centre of cell c.
MouseAt(c) ==
    [x |-> c[1] * CW + c[2] * BS + (BS \div 2) - camera.x,
     y |-> c[3] * BS + (BS \div 2) - camera.y]

InitWater ==
    /\ chunk_list = InitialWindow
    /\ \E poppy \in BOOLEAN :
          blocks = [c \in WellStone \cup (IF poppy THEN {PoppyCell} ELSE {}) |->
                       IF c \in WellStone THEN Block("Stone", 0) ELSE Block("Poppy", 0)]
    /\ player = NewPlayer((WellCol - 1) * BS + BS \div 5, WellTop * BS - PLAYER_HEIGHT)
    /\ camera = center_on_player(player)
    /\ pc = "control"
    /\ prev = NewPlayer(0, 0)
    /\ hist = NoHist
    /\ inventory = NewInventory
    /\ gen = NoGen
    /\ mouse = NewMouse

\* WaterSimulation.update_water(chunk_list)
UpdateWater ==
    /\ blocks' = update_water(blocks, chunk_list)
    /\ hist' = [op |-> "update_water", b |-> blocks, cell |-> <<0, 0, 0>>,
                result |-> "Air", inv |-> inventory, quantity |-> 0, ok |-> TRUE]
    /\ UNCHANGED <<chunk_list, player, camera, pc, prev, inventory, gen, mouse>>

\* BlockInteraction.break_block at the screen point (mouse_x, mouse_y)
BreakBlock(mouse_x, mouse_y) ==
    LET r == break_block(blocks, mouse_x, mouse_y, camera, chunk_list, player)
        at == get_block_at_position(mouse_x, mouse_y, camera, chunk_list)
    IN /\ blocks' = r.b
       /\ hist' = [op |-> "break_block", b |-> blocks,
                   cell |-> <<at.chunk, at.block_x, at.block_y>>, result |-> r.result,
                   inv |-> inventory, quantity |-> 0, ok |-> TRUE]
       /\ UNCHANGED <<chunk_list, player, camera, pc, prev, inventory, gen, mouse>>

\* BlockInteraction.place_block of a tile of type block_type at the screen point
PlaceBlock(mouse_x, mouse_y, block_type) ==
    LET r == place_block(blocks, mouse_x, mouse_y, camera, chunk_list, player, block_type)
        at == get_block_at_position(mouse_x, mouse_y, camera, chunk_list)
    IN /\ blocks' = r.b
       /\ hist' = [op |-> "place_block", b |-> blocks,
                   cell |-> <<at.chunk, at.block_x, at.block_y>>,
                   result |-> IF r.result THEN block_type ELSE "Air",
                   inv |-> inventory, quantity |-> 0, ok |-> TRUE]
       /\ UNCHANGED <<chunk_list, player, camera, pc, prev, inventory, gen, mouse>>

BreakInWell == \E c \in BreakCells : BreakBlock(MouseAt(c).x, MouseAt(c).y)

PlaceWaterInWell == \E c \in PlaceCells : PlaceBlock(MouseAt(c).x, MouseAt(c).y, "Water")

NextWater == UpdateWater \/ BreakInWell \/ PlaceWaterInWell

SpecWater == InitWater /\ [][NextWater]_vars

----------------------------------------------------------------------------
(* Specification of flooding: a flat Stone floor at row FloodFloor under    *)
(* the three chunks of the window, a water source on it (in the middle of a *)
(* chunk, beside a chunk boundary inside the window, beside an edge of the  *)
(* window) and, near the source, nothing or one of: an OakLog, a Poppy or a *)
(* Stone in the row of the water, an OakLog or a Poppy in place of a floor  *)
(* tile, a hole in the floor, a second source three columns away, a second  *)
(* source beside the left edge of the window. update_water runs up to       *)
(* MaxTicks times; hist.quantity counts its calls.                          *)

FloodFloor == 30
MaxTicks == 9

\* The cell of row y in the column counted from column 0 of chunk 0.
Global(g, y) == <<g \div CHUNK_WIDTH, g % CHUNK_WIDTH, y>>

FloodSources == {30, 3, 60, -62, 125, -1, 0, 63, 64}

FloodExtras ==
    {"none", "log beside", "poppy beside", "stone beside", "log below",
     "poppy below", "hole", "second source", "edge source"}

With(b, c, tile) == SetTile(b, c[1], c[2], c[3], tile)

FlatFloor ==
    [c \in {Global(g, FloodFloor) :
                g \in -CHUNK_WIDTH .. 2 * CHUNK_WIDTH - 1} |-> Block("Stone", 0)]

FloodScene(g, extra) ==
    LET row == FloodFloor - 1
        b == With(FlatFloor, Global(g, row), Block("Water", 0))
    IN IF extra = "log beside" THEN With(b, Global(g + 2, row), Block("OakLog", 0))
       ELSE IF extra = "poppy beside" THEN With(b, Global(g - 2, row), Block("Poppy", 0))
       ELSE IF extra = "stone beside" THEN With(b, Global(g + 2, row), Block("Stone", 0))
       ELSE IF extra = "log below"
       THEN With(b, Global(g + 1, FloodFloor), Block("OakLog", 0))
       ELSE IF extra = "poppy below"
       THEN With(b, Global(g + 1, FloodFloor), Block("Poppy", 0))
       ELSE IF extra = "hole" THEN With(b, Global(g - 1, FloodFloor), AirTile)
       ELSE IF extra = "second source"
       THEN With(b, Global(g - 3, row), Block("Water", 0))
       ELSE IF extra = "edge source"
       THEN With(b, Global(2 - CHUNK_WIDTH, row), Block("Water", 0))
       ELSE b

InitFlood ==
    /\ chunk_list = InitialWindow
    /\ \E g \in FloodSources, extra \in FloodExtras :
           blocks = [c \in {d \in DOMAIN FloodScene(g, extra) :
                               d[1] \in Positions(InitialWindow)}
                       |-> FloodScene(g, extra)[c]]
    /\ player = NewPlayer(0, 0)
    /\ camera = center_on_player(player)
    /\ pc = "control"
    /\ prev = NewPlayer(0, 0)
    /\ hist = NoHist
    /\ inventory = NewInventory
    /\ gen = NoGen
    /\ mouse = NewMouse

\* WaterSimulation.update_water(chunk_list), counted
FloodTick ==
    /\ hist.quantity < MaxTicks
    /\ blocks' = update_water(blocks, chunk_list)
    /\ hist' = [op |-> "update_water", b |-> blocks, cell |-> <<0, 0, 0>>,
                result |-> "Air", inv |-> inventory,
                quantity |-> hist.quantity + 1, ok |-> TRUE]
    /\ UNCHANGED <<chunk_list, player, camera, pc, prev, inventory, gen, mouse>>

NextFlood == FloodTick

SpecFlood == InitFlood /\ [][NextFlood]_vars

----------------------------------------------------------------------------
(* Specification of breaking and placing: the player stands on, or hangs    *)
(* over, a short Stone floor at row 20 of chunk 0 and clicks on tiles of    *)
(* every kind, near and far, inside and outside the window.                 *)

FloorRow == 20

\* The tiles of the scene: the floor under the player, Bedrock, an OakLog and
\* a Poppy, a water source with the tile it flowed into below it, and two
\* Stone tiles six and seven columns from the player.
InteractScene ==
    LET put == [c \in {<<0, 5, FloorRow>>, <<0, 6, FloorRow>>, <<0, 8, FloorRow>>,
                       <<0, 11, FloorRow - 3>>, <<0, 12, FloorRow - 3>>}
                   |-> Block("Stone", 0)]
    IN  (<<0, 7, FloorRow>> :> Block("Bedrock", 0))
        @@ (<<0, 7, FloorRow - 1>> :> Block("OakLog", 0))
        @@ (<<0, 8, FloorRow - 1>> :> Block("Poppy", 0))
        @@ (<<0, 3, FloorRow>> :> Block("Water", 0))
        @@ (<<0, 3, FloorRow + 1>> :> Block("Water", 1))
        @@ put

\* The cells the player clicks on: the tiles of the scene, Air cells at and
\* beside the player, Air cells six and seven columns to the left (in chunk
\* -1), a cell of a chunk outside the window and cells above and below the grid.
InteractTargets ==
    DOMAIN InteractScene
    \cup {<<0, 5, FloorRow - 3>>, <<0, 5, FloorRow - 2>>, <<0, 5, FloorRow - 1>>,
          <<0, 6, FloorRow - 1>>, <<0, 4, FloorRow - 1>>,
          <<-1, CHUNK_WIDTH - 1, FloorRow - 3>>, <<-1, CHUNK_WIDTH - 2, FloorRow - 3>>,
          <<2, 0, FloorRow - 1>>, <<0, 5, -1>>, <<0, 5, CHUNK_HEIGHT>>}

\* The player's positions: standing on the floor inside column 5, standing
\* across columns 5 and 6, in the air with its centre on the centre of the
\* tile (0, 5, 17), in the air across rows 17, 18 and 19, and at the top of
\* the grid.
InteractStarts ==
    {<<5 * BS + BS \div 5, FloorRow * BS - PLAYER_HEIGHT>>,
     <<5 * BS + BS \div 2, FloorRow * BS - PLAYER_HEIGHT>>,
     <<5 * BS + BS \div 5, (FloorRow - 3) * BS + BS \div 2 - PLAYER_HEIGHT \div 2>>,
     <<5 * BS + BS \div 5, (FloorRow - 3) * BS + BS \div 2>>,
     <<5 * BS + BS \div 5, 0>>}

PlaceTypes == {"Stone", "Water"}

\* The number of cells in which grid b differs from the scene.
MaxEdits == 1

Edits(b) ==
    Cardinality({c \in DOMAIN b \cup DOMAIN InteractScene :
                    Tile(b, c) # Tile(InteractScene, c)})

InitInteract ==
    /\ chunk_list = InitialWindow
    /\ blocks = InteractScene
    /\ \E s \in InteractStarts : player = NewPlayer(s[1], s[2])
    /\ camera = center_on_player(player)
    /\ pc = "control"
    /\ prev = NewPlayer(0, 0)
    /\ hist = NoHist
    /\ inventory = NewInventory
    /\ gen = NoGen
    /\ mouse = NewMouse

BreakInScene ==
    \E c \in InteractTargets :
        /\ BreakBlock(MouseAt(c).x, MouseAt(c).y)
        /\ Edits(blocks') <= MaxEdits

PlaceInScene ==
    \E c \in InteractTargets, block_type \in PlaceTypes :
        /\ PlaceBlock(MouseAt(c).x, MouseAt(c).y, block_type)
        /\ Edits(blocks') <= MaxEdits

NextInteract == BreakInScene \/ PlaceInScene

SpecInteract == InitInteract /\ [][NextInteract]_vars

----------------------------------------------------------------------------
(* Specification of the right click of the game tick: in the scene of       *)
(* SpecInteract the player right-clicks on tiles, and what a break yields   *)
(* goes to the inventory (the crafting menu is closed).                     *)

\* Game.handle_block_interaction, lines 183-193, with the mouse at the
\* screen point (mouse_x, mouse_y).
RightClick(mouse_x, mouse_y) ==
    LET r == break_block(blocks, mouse_x, mouse_y, camera, chunk_list, player)
        at == get_block_at_position(mouse_x, mouse_y, camera, chunk_list)
    IN /\ blocks' = r.b
       /\ inventory' = IF r.result # "Air" THEN add_block(inventory, r.result, 1)
                       ELSE inventory
       /\ hist' = [op |-> "right_click", b |-> blocks,
                   cell |-> <<at.chunk, at.block_x, at.block_y>>, result |-> r.result,
                   inv |-> inventory, quantity |-> 0, ok |-> TRUE]
       /\ UNCHANGED <<chunk_list, player, camera, pc, prev, gen, mouse>>

RightClickInScene == \E c \in InteractTargets : RightClick(MouseAt(c).x, MouseAt(c).y)

NextTick == RightClickInScene

SpecTick == InitInteract /\ [][NextTick]_vars

----------------------------------------------------------------------------
(* Specification of the inventory: add_block and remove_block are called   *)
(* with block types that can and cannot be collected and with quantities   *)
(* from 1 to MaxQuantity, the quantity held of a type staying at most      *)
(* MaxHeld.                                                                 *)

MaxQuantity == 2
MaxHeld == 3
InventoryTypes == {"Stone", "OakLog", "CobbleStone", "Water"}

InitInventory ==
    /\ chunk_list = InitialWindow
    /\ blocks = EmptyBlocks
    /\ player = NewPlayer(0, 0)
    /\ camera = [x |-> 0, y |-> 0]
    /\ pc = "control"
    /\ prev = NewPlayer(0, 0)
    /\ hist = NoHist
    /\ inventory = NewInventory
    /\ gen = NoGen
    /\ mouse = NewMouse

\* inventory.add_block(block_type, quantity)
AddBlock(block_type, quantity) ==
    /\ get_block_count(inventory, block_type) + quantity <= MaxHeld
    /\ inventory' = add_block(inventory, block_type, quantity)
    /\ hist' = [op |-> "add_block", b |-> blocks, cell |-> <<0, 0, 0>>,
                result |-> block_type, inv |-> inventory,
                quantity |-> quantity, ok |-> TRUE]
    /\ UNCHANGED <<chunk_list, blocks, player, camera, pc, prev, gen, mouse>>

\* inventory.remove_block(block_type, quantity)
RemoveBlock(block_type, quantity) ==
    /\ inventory' = remove_block(inventory, block_type, quantity).inv
    /\ hist' = [op |-> "remove_block", b |-> blocks, cell |-> <<0, 0, 0>>,
                result |-> block_type, inv |-> inventory,
                quantity |-> quantity,
                ok |-> remove_block(inventory, block_type, quantity).result]
    /\ UNCHANGED <<chunk_list, blocks, player, camera, pc, prev, gen, mouse>>

AddSome == \E t \in InventoryTypes, q \in 1..MaxQuantity : AddBlock(t, q)

RemoveSome == \E t \in InventoryTypes, q \in 1..MaxQuantity : RemoveBlock(t, q)

NextInventory == AddSome \/ RemoveSome

SpecInventory == InitInventory /\ [][NextInventory]_vars

(* Specification of the selection: blocks are added and removed as in      *)
(* SpecInventory while the number keys 1 to 9 select a slot and the         *)
(* selection steps forward and backward.                                    *)

SelectKeys == 0 .. 8

\* Game.control_updates, lines 145-162: inventory.select_block(index)
SelectBlock(index) ==
    /\ inventory' = select_block(inventory, index)
    /\ hist' = [op |-> "select_block", b |-> blocks, cell |-> <<0, 0, 0>>,
                result |-> inventory'.selected_block, inv |-> inventory,
                quantity |-> index, ok |-> TRUE]
    /\ UNCHANGED <<chunk_list, blocks, player, camera, pc, prev, gen, mouse>>

\* inventory.select_next_block()
SelectNextBlock ==
    /\ inventory' = select_next_block(inventory)
    /\ hist' = [op |-> "select_next_block", b |-> blocks, cell |-> <<0, 0, 0>>,
                result |-> inventory'.selected_block, inv |-> inventory,
                quantity |-> 0, ok |-> TRUE]
    /\ UNCHANGED <<chunk_list, blocks, player, camera, pc, prev, gen, mouse>>

\* inventory.select_previous_block()
SelectPreviousBlock ==
    /\ inventory' = select_previous_block(inventory)
    /\ hist' = [op |-> "select_previous_block", b |-> blocks, cell |-> <<0, 0, 0>>,
                result |-> inventory'.selected_block, inv |-> inventory,
                quantity |-> 0, ok |-> TRUE]
    /\ UNCHANGED <<chunk_list, blocks, player, camera, pc, prev, gen, mouse>>

SelectSome == \E index \in SelectKeys : SelectBlock(index)

NextSelect ==
    \/ AddSome
    \/ RemoveSome
    \/ SelectSome
    \/ SelectNextBlock
    \/ SelectPreviousBlock

SpecSelect == InitInventory /\ [][NextSelect]_vars

----------------------------------------------------------------------------
(* Specification of the clicks of the game tick: in the scene of            *)
(* SpecInteract the player presses the number keys 1 and 2 and clicks with  *)
(* the right button, the left button or both in one frame, on the tiles of  *)
(* ClickTargets (the crafting menu is closed). The grid differs from the     *)
(* scene in at most MaxClickEdits cells.                                     *)

MaxClickEdits == 2

\* handle_block_interaction that keeps the block it has placed.
HandleBlockInteractionMutant(b, inv, mouse_x, mouse_y, cam, cl, p, right, left) ==
    LET broken == IF right THEN break_block(b, mouse_x, mouse_y, cam, cl, p)
                  ELSE [b |-> b, result |-> "Air"]
        collected == IF broken.result # "Air" THEN add_block(inv, broken.result, 1)
                     ELSE inv
        selected_block == collected.selected_block
        placed == IF left /\ selected_block # "Air" /\ has_block(collected, selected_block)
                  THEN place_block(broken.b, mouse_x, mouse_y, cam, cl, p, selected_block)
                  ELSE [b |-> broken.b, result |-> FALSE]
    IN [b |-> placed.b, inv |-> collected,
        block_type |-> broken.result, placed |-> placed.result]

\* Game.handle_block_interaction with the mouse at the screen point
\* (mouse_x, mouse_y); right and left are mouse.right_click_event and
\* mouse.left_click_event. block_type is what the break returned and placed
\* what place_block returned (False when it was not called).
handle_block_interaction(b, inv, mouse_x, mouse_y, cam, cl, p, right, left) ==
    LET broken == IF right THEN break_block(b, mouse_x, mouse_y, cam, cl, p)
                  ELSE [b |-> b, result |-> "Air"]
        collected == IF broken.result # "Air" THEN add_block(inv, broken.result, 1)
                     ELSE inv
        selected_block == collected.selected_block
        placed == IF left /\ selected_block # "Air" /\ has_block(collected, selected_block)
                  THEN place_block(broken.b, mouse_x, mouse_y, cam, cl, p, selected_block)
                  ELSE [b |-> broken.b, result |-> FALSE]
    IN [b |-> placed.b,
        inv |-> IF placed.result THEN remove_block(collected, selected_block, 1).inv
                ELSE collected,
        block_type |-> broken.result, placed |-> placed.result]

\* The cells clicked: the Stone floor under the player and beside it, the
\* OakLog, Air cells beside the player and at its head, an Air cell out of
\* reach and the cell of a chunk outside the window.
ClickTargets ==
    {<<0, 5, FloorRow>>, <<0, 6, FloorRow>>, <<0, 7, FloorRow - 1>>,
     <<0, 6, FloorRow - 1>>, <<0, 4, FloorRow - 1>>, <<0, 5, FloorRow - 2>>,
     <<0, 12, FloorRow - 1>>, <<2, 0, FloorRow - 1>>}

\* One game tick with mouse buttons pressed: hist.quantity is 1 when the
\* left button was, hist.result is what the break returned and hist.ok what
\* the placement returned.
Click(mouse_x, mouse_y, right, left) ==
    LET r == handle_block_interaction(blocks, inventory, mouse_x, mouse_y, camera,
                                      chunk_list, player, right, left)
        at == get_block_at_position(mouse_x, mouse_y, camera, chunk_list)
    IN /\ blocks' = r.b
       /\ inventory' = r.inv
       /\ hist' = [op |-> "click", b |-> blocks,
                   cell |-> <<at.chunk, at.block_x, at.block_y>>,
                   result |-> r.block_type, inv |-> inventory,
                   quantity |-> IF left THEN 1 ELSE 0, ok |-> r.placed]
       /\ UNCHANGED <<chunk_list, player, camera, pc, prev, gen, mouse>>

ClickInScene ==
    \E c \in ClickTargets, right \in BOOLEAN, left \in BOOLEAN :
        /\ right \/ left
        /\ Click(MouseAt(c).x, MouseAt(c).y, right, left)
        /\ Edits(blocks') <= MaxClickEdits

SelectInScene == \E index \in {0, 1} : SelectBlock(index)

NextClick == ClickInScene \/ SelectInScene

SpecClick == InitInteract /\ [][NextClick]_vars

----------------------------------------------------------------------------
(* Specification of crafting: blocks are collected one at a time, as a     *)
(* right click collects them, and the recipes of the crafting menu are     *)
(* crafted. The dictionary holds at most MaxKinds block types and at most  *)
(* MaxStack blocks of a type.                                              *)

MaxKinds == 2
MaxStack == 9

\* The block types the recipes take as input.
CraftInputs ==
    {RECIPES[r].inputs[i].block_type : r \in DOMAIN RECIPES, i \in {1}}

Bounded(inv) ==
    /\ Len(inv.collected_blocks) <= MaxKinds
    /\ \A i \in DOMAIN inv.collected_blocks :
           inv.collected_blocks[i].quantity <= MaxStack

\* inventory.add_block(block_type) of a collected block
Collect(block_type) ==
    /\ Bounded(add_block(inventory, block_type, 1))
    /\ inventory' = add_block(inventory, block_type, 1)
    /\ hist' = [op |-> "add_block", b |-> blocks, cell |-> <<0, 0, 0>>,
                result |-> block_type, inv |-> inventory,
                quantity |-> 1, ok |-> TRUE]
    /\ UNCHANGED <<chunk_list, blocks, player, camera, pc, prev, gen, mouse>>

\* CraftingRecipes.craft_item(recipe, inventory); hist.result is the name of
\* the recipe.
CraftItem(recipe) ==
    /\ Bounded(craft_item(recipe, inventory).inv)
    /\ inventory' = craft_item(recipe, inventory).inv
    /\ hist' = [op |-> "craft_item", b |-> blocks, cell |-> <<0, 0, 0>>,
                result |-> recipe.name, inv |-> inventory,
                quantity |-> 1, ok |-> craft_item(recipe, inventory).result]
    /\ UNCHANGED <<chunk_list, blocks, player, camera, pc, prev, gen, mouse>>

CollectSome == \E t \in CraftInputs : Collect(t)

CraftSome == \E r \in DOMAIN RECIPES : CraftItem(RECIPES[r])

NextCraft == CollectSome \/ CraftSome

SpecCraft == InitInventory /\ [][NextCraft]_vars

----------------------------------------------------------------------------
(* Specification of chunk generation: the chunk at position 0 is generated  *)
(* pass by pass. The heights of the first pass are the lowest or the        *)
(* highest the noise allows, in all columns or in alternating ones. At most *)
(* MaxFeatures veins and decorations are started, veins at the cells of     *)
(* VeinStarts and decorations in the columns of FeatureCols, and a flood    *)
(* fill is asked for a size of FillSizes. An action is a pass, the start     *)
(* of a flood fill or one iteration of its loop.                            *)

MaxFeatures == 1
\* The sizes a flood fill is asked for.
FillSizes == 1 .. 3

HeightOffsets ==
    {[x \in Columns |-> 0], [x \in Columns |-> 1], [x \in Columns |-> x % 2]}

VeinStarts == {<<0, 100>>, <<0, 189>>, <<1, 190>>, <<63, 190>>}

FeatureCols == {20, 21}

\* The values of random() (in percent) that choose an ore.
OreDraws == {0, 20, 50, 80}

InitTerrain ==
    /\ chunk_list = InitialWindow
    /\ blocks = EmptyBlocks
    /\ player = NewPlayer(0, 0)
    /\ camera = [x |-> 0, y |-> 0]
    /\ pc = "control"
    /\ prev = NewPlayer(0, 0)
    /\ hist = NoHist
    /\ inventory = NewInventory
    /\ gen = NoGen
    /\ mouse = NewMouse

Others == <<chunk_list, blocks, player, camera, pc, prev, hist, inventory, mouse>>

\* The first pass of generate_chunks: every column gets its height.
GenerateTerrain ==
    /\ gen.phase = "new"
    /\ \E offset \in HeightOffsets :
           gen' = [gen EXCEPT !.phase = "ores",
                              !.height = [x \in Columns |->
                                             SurfaceBase[x + 1] + offset[x]]]
    /\ UNCHANGED Others

\* place_ore_veins reaches the Stone tile (x, y) and starts a vein there.
StartOreVein(x, y) ==
    /\ gen.phase = "ores"
    /\ gen.features < MaxFeatures
    /\ x * CHUNK_HEIGHT + y > gen.scan
    /\ ChunkTile(gen, x, y).block_type = "Stone"
    /\ \E r \in OreDraws :
         \E size \in VeinSizes(choose_ore(y, r)) :
           /\ size \in FillSizes
           /\ gen' = start_ore_vein([gen EXCEPT !.scan = x * CHUNK_HEIGHT + y,
                                                !.features = @ + 1],
                                    choose_ore(y, r), x, y, size)
    /\ UNCHANGED Others

\* One iteration of the loop of generate_ore_vein.
OreVeinStep ==
    /\ gen.phase = "vein"
    /\ \E k \in DOMAIN gen.frontier, chosen \in SUBSET DOMAIN FloodDirections :
           gen' = ore_vein_step(gen, k, chosen)
    /\ UNCHANGED Others

\* place_ore_veins returns.
EndOreVeins ==
    /\ gen.phase = "ores"
    /\ gen' = [gen EXCEPT !.phase = "features"]
    /\ UNCHANGED Others

\* The third pass reaches column x, draws its height again (the lower one
\* of the column or, with up = 1, the higher one) and decorates it.
Decorates(x, up) ==
    /\ gen.phase = "features"
    /\ gen.features < MaxFeatures
    /\ x > gen.col
    /\ up \in {0, 1}

Decorated(g, x) == [g EXCEPT !.col = x, !.features = @ + 1]

PlaceTree(x, up) ==
    /\ Decorates(x, up)
    /\ x > 2 /\ x < CHUNK_WIDTH - 3
    /\ \E trunk_height \in MIN_TREE_TRUNK_HEIGHT .. MAX_TREE_TRUNK_HEIGHT :
           gen' = place_tree(Decorated(gen, x), x, SurfaceBase[x + 1] + up + 27,
                             trunk_height)
    /\ UNCHANGED Others

PlacePoppy(x, up) ==
    /\ Decorates(x, up)
    /\ gen' = place_poppy(Decorated(gen, x), x, SurfaceBase[x + 1] + up + 27)
    /\ UNCHANGED Others

PlacePumpkin(x, up) ==
    /\ Decorates(x, up)
    /\ gen' = place_pumpkin(Decorated(gen, x), x, SurfaceBase[x + 1] + up + 27)
    /\ UNCHANGED Others

GeneratePond(x, up) ==
    /\ Decorates(x, up)
    /\ x > POND_MAX_SIZE /\ x < CHUNK_WIDTH - POND_MAX_SIZE
    /\ \E pond_size \in POND_MIN_SIZE .. POND_MAX_SIZE :
           /\ pond_size \in FillSizes
           /\ gen' = start_pond(Decorated(gen, x), x,
                                SurfaceBase[x + 1] + up + 26, pond_size)
    /\ UNCHANGED Others

\* One iteration of the loop of generate_pond.
PondStep ==
    /\ gen.phase = "pond"
    /\ \E k \in DOMAIN gen.frontier, chosen \in SUBSET DOMAIN FloodDirections :
           gen' = pond_step(gen, k, chosen)
    /\ UNCHANGED Others

\* generate_chunks returns.
EndGenerate ==
    /\ gen.phase = "features"
    /\ gen' = [gen EXCEPT !.phase = "done"]
    /\ UNCHANGED Others

StartSomeVein == \E c \in VeinStarts : StartOreVein(c[1], c[2])

TreeSomewhere == \E x \in FeatureCols, up \in {0, 1} : PlaceTree(x, up)

PoppySomewhere == \E x \in FeatureCols, up \in {0, 1} : PlacePoppy(x, up)

PumpkinSomewhere == \E x \in FeatureCols, up \in {0, 1} : PlacePumpkin(x, up)

PondSomewhere == \E x \in FeatureCols, up \in {0, 1} : GeneratePond(x, up)

NextTerrain ==
    \/ GenerateTerrain
    \/ StartSomeVein
    \/ OreVeinStep
    \/ EndOreVeins
    \/ TreeSomewhere
    \/ PoppySomewhere
    \/ PumpkinSomewhere
    \/ PondSomewhere
    \/ PondStep
    \/ EndGenerate

SpecTerrain == InitTerrain /\ [][NextTerrain]_vars

----------------------------------------------------------------------------
(* Specification of scrolling: in a world whose generated chunks are empty   *)
(* the player runs left and right through the chunks, by long frames,       *)
(* and between two ticks places Stone or Water on, and breaks, the           *)
(* tiles two columns to its left and to its right, while update_water runs. *)
(* At most MaxTiles tiles are in the window at a time.                       *)

MaxTiles == 2

ScrollDt == {7000}

\* The screen points two tiles to the left and to the right of the middle
\* of the view, where the camera keeps the player.
ScrollMouse ==
    {[x |-> VIEW_WIDTH \div 2 + dx * BS, y |-> VIEW_HEIGHT \div 2] : dx \in {-2, 2}}

InitScroll ==
    /\ chunk_list = InitialWindow
    /\ blocks = EmptyBlocks
    /\ player = NewPlayer(0, 0)
    /\ camera = center_on_player(player)
    /\ pc = "control"
    /\ prev = NewPlayer(0, 0)
    /\ hist = NoHist
    /\ inventory = NewInventory
    /\ gen = NoGen
    /\ mouse = NewMouse

ScrollInput ==
    \E dir \in {-1, 1}, dt \in ScrollDt :
        /\ UpdateInput(dir, dt, 0)
        /\ player'.x_change <= MaxChunk * CW
        /\ player'.x_change >= -(MaxChunk * CW)

PlaceInScroll ==
    \E m \in ScrollMouse, block_type \in PlaceTypes :
        /\ pc = "control"
        /\ PlaceBlock(m.x, m.y, block_type)
        /\ Cardinality(DOMAIN blocks') <= MaxTiles

BreakInScroll ==
    \E m \in ScrollMouse :
        /\ pc = "control"
        /\ BreakBlock(m.x, m.y)

WaterInScroll ==
    /\ pc = "control"
    /\ UpdateWater
    /\ Cardinality(DOMAIN blocks') <= MaxTiles

NextScroll ==
    \/ ScrollInput
    \/ UpdatePlayerPosition
    \/ LoadChunks
    \/ PlaceInScroll
    \/ BreakInScroll
    \/ WaterInScroll

SpecScroll == InitScroll /\ [][NextScroll]_vars

----------------------------------------------------------------------------
(* Specification of the world floor: the chunk at position 0 is generated   *)
(* as in SpecTerrain and the game starts on it, the chunks at -1 and 1      *)
(* being as their first pass leaves them. Of chunk 0 the rows from         *)
(* FloorTop down are kept and of the other two the bottom row; the player   *)
(* stands on them in column 1 of chunk 0 and, without moving, breaks the    *)
(* tiles of column 2 down to the bottom row, places Stone and Water there   *)
(* and on the bottom row of the chunk at position -1, and lets update_water *)
(* run.                                                                     *)

FloorTop == CHUNK_HEIGHT - 3

FloorCells ==
    {<<0, x, y>> : x \in Columns, y \in FloorTop .. CHUNK_HEIGHT - 1}
    \cup {<<pos, x, CHUNK_HEIGHT - 1>> : pos \in Positions(InitialWindow), x \in Columns}

\* Game.__init__, line 57: chunk_list = [Chunk(-1), Chunk(0), Chunk(1)],
\* then the player.
StartGame ==
    /\ gen.phase = "done"
    /\ blocks' = [c \in FloorCells |->
                     IF c[1] = 0 THEN ChunkTile(gen, c[2], c[3])
                     ELSE Block(get_block_type(gen.height[c[2]], c[3]), 0)]
    /\ gen' = [NoGen EXCEPT !.phase = "game"]
    /\ player' = NewPlayer(BS + BS \div 5, FloorTop * BS - PLAYER_HEIGHT)
    /\ camera' = center_on_player(player')
    /\ UNCHANGED <<chunk_list, pc, prev, hist, inventory, mouse>>

\* The cells clicked: column 2 of chunk 0 from the top of the floor down to
\* the bottom row, and the bottom row of the last column of the chunk at
\* position -1.
FloorTargets ==
    {<<0, 2, y>> : y \in FloorTop .. CHUNK_HEIGHT - 1}
    \cup {<<-1, CHUNK_WIDTH - 1, CHUNK_HEIGHT - 1>>}

BreakInFloor ==
    \E c \in FloorTargets :
        /\ gen.phase = "game"
        /\ BreakBlock(MouseAt(c).x, MouseAt(c).y)

PlaceInFloor ==
    \E c \in FloorTargets, block_type \in PlaceTypes :
        /\ gen.phase = "game"
        /\ PlaceBlock(MouseAt(c).x, MouseAt(c).y, block_type)

WaterInFloor ==
    /\ gen.phase = "game"
    /\ UpdateWater

NextFloor ==
    \/ GenerateTerrain
    \/ StartSomeVein
    \/ OreVeinStep
    \/ EndOreVeins
    \/ TreeSomewhere
    \/ PoppySomewhere
    \/ PumpkinSomewhere
    \/ PondSomewhere
    \/ PondStep
    \/ EndGenerate
    \/ StartGame
    \/ BreakInFloor
    \/ PlaceInFloor
    \/ WaterInFloor

SpecFloor == InitTerrain /\ [][NextFloor]_vars

----------------------------------------------------------------------------
(* Specification of the mouse: frame after frame, main_loop resets the      *)
(* click events and hands the mouse button events of the frame, at most     *)
(* MaxEvents of them, to the mouse one by one.                              *)

MaxEvents == 3

MouseEvents ==
    [type : {"MOUSEBUTTONDOWN", "MOUSEBUTTONUP"}, button : {1, 2, 3}]

InitMouse ==
    /\ chunk_list = InitialWindow
    /\ blocks = EmptyBlocks
    /\ player = NewPlayer(0, 0)
    /\ camera = [x |-> 0, y |-> 0]
    /\ pc = "control"
    /\ prev = NewPlayer(0, 0)
    /\ hist = NoHist
    /\ inventory = NewInventory
    /\ gen = NoGen
    /\ mouse = NewMouse

\* main_loop, lines 220-222: a frame begins.
ResetClickEvents ==
    /\ mouse' = reset_click_events(mouse)
    /\ UNCHANGED <<chunk_list, blocks, player, camera, pc, prev, hist, inventory, gen>>

\* main_loop, lines 239-241: the next event of the frame is a mouse button
\* event.
HandleEvents ==
    /\ Len(mouse.frame) < MaxEvents
    /\ \E event \in MouseEvents : mouse' = handle_events(mouse, event)
    /\ UNCHANGED <<chunk_list, blocks, player, camera, pc, prev, hist, inventory, gen>>

NextMouse == ResetClickEvents \/ HandleEvents

SpecMouse == InitMouse /\ [][NextMouse]_vars

----------------------------------------------------------------------------
(* Specification of the game loop: Game.update, tick after tick, in the     *)
(* scene of SpecInteract (which holds a water source over a flowing tile    *)
(* over Air), the player running left and right and no mouse button being   *)
(* pressed. Rendering and the frame counter change nothing of the state.    *)

NextGame == RunInput \/ UpdatePlayerPosition \/ LoadChunks

SpecGame == InitInteract /\ [][NextGame]_vars

----------------------------------------------------------------------------
(* Claims about the chunk window *)

\* C1: starting from the window [-1, 0, 1], after every load_chunks call
\* chunk_list holds exactly three chunks whose positions are consecutive
\* integers in increasing order (p-1, p, p+1), wherever the player is.
C1_WindowConsecutive ==
    /\ Len(chunk_list) = 3
    /\ chunk_list[2] = chunk_list[1] + 1
    /\ chunk_list[3] = chunk_list[2] + 1

\* A load_chunks call has just shifted the window to the right of chunk 1.
C1_Witness ==
    /\ pc = "control"
    /\ chunk_list = <<1, 2, 3>>

\* C2: after each load_chunks call the middle chunk's position equals the
\* player's current chunk index floor(player.x / (CHUNK_WIDTH * BLOCK_SIZE)).
C2_MiddleIsPlayerChunk ==
    pc = "control" => chunk_list[2] = calculate_player_position(player.x)

\* C30: one load_chunks call on three consecutive chunks generates at most
\* one new chunk: the left-edge and the right-edge condition do not both
\* fire, the window shifts by at most one slot, and when the player's chunk
\* is the middle chunk, or no chunk of the window at all, chunk_list is
\* unchanged.
C30_AtMostOneShift ==
    [][(pc = "load" /\ pc' = "control") =>
           LET player_chunk_pos == calculate_player_position(player.x)
               shifted_left == <<chunk_list[1] - 1, chunk_list[1], chunk_list[2]>>
               shifted_right == <<chunk_list[2], chunk_list[3], chunk_list[3] + 1>>
           IN /\ Cardinality(Positions(chunk_list') \ Positions(chunk_list)) <= 1
              /\ chunk_list' \in {chunk_list, shifted_left, shifted_right}
              /\ player_chunk_pos = chunk_list[1] => chunk_list' = shifted_left
              /\ player_chunk_pos = chunk_list[3] => chunk_list' = shifted_right
              /\ (\/ player_chunk_pos = chunk_list[2]
                  \/ player_chunk_pos \notin Positions(chunk_list))
                 => chunk_list' = chunk_list]_vars

\* load_chunks has shifted the window one slot to the left of where it
\* started, and the player stands in its middle chunk.
C30_Witness ==
    /\ pc = "control"
    /\ chunk_list = <<-2, -1, 0>>
    /\ calculate_player_position(player.x) = -1

\* C31: chunk contents persist exactly while the chunk is resident. Across
\* a load_chunks call every tile of a chunk that stays in the window is
\* what it was, with its placed, broken and flowed tiles; the chunk that
\* enters the window is a new one and holds no tile that was placed or has
\* flowed there before; and no tile is kept for a position that is not in
\* the window.
C31_ResidentChunksPersist ==
    [][(pc = "load" /\ pc' = "control") =>
           LET kept == Positions(chunk_list) \cap Positions(chunk_list')
           IN /\ \A c \in DOMAIN blocks :
                    c[1] \in kept => c \in DOMAIN blocks' /\ blocks'[c] = blocks[c]
              /\ \A c \in DOMAIN blocks' :
                    c[1] \in kept /\ c \in DOMAIN blocks
              /\ \A c \in DOMAIN blocks : c[1] \in Positions(chunk_list)]_vars

\* The Stone the player placed last is gone from its cell, whose chunk is in
\* the window again after it had scrolled out, and the window holds another
\* tile.
C31_Witness ==
    /\ pc = "control"
    /\ hist.op = "place_block"
    /\ hist.result = "Stone"
    /\ hist.cell[1] \in Positions(chunk_list)
    /\ Tile(blocks, hist.cell) = AirTile
    /\ DOMAIN blocks # {}

----------------------------------------------------------------------------
(* Claims about the physics step *)

\* The cell c lies in rows [-2, +3] and columns [-2, +2] around the tile
\* address of the entity p, inside the grid and the window.
InNeighbourhood(p, c) ==
    /\ c[1] \in Positions(chunk_list)
    /\ InGrid(c[2], c[3])
    /\ (c[1] * CHUNK_WIDTH + c[2]) - (p.x \div BS) \in -2..2
    /\ c[3] - chunk_y_of(p.y) \in -2..3

\* C3: after every update_player_position call the entity's box at its final
\* (x, y) overlaps no solid tile of the scanned neighbourhood.
C3_NoPenetration ==
    pc = "load" =>
        \A c \in DOMAIN blocks :
            (InNeighbourhood(prev, c) /\ Solid(blocks, c))
                => ~Overlaps(player.x, player.y, c)

\* The case of C4 for the tile at cell c: the entity p is above the solid tile,
\* the tile is directly below it, and the proposed y_change puts the entity's
\* bottom edge inside the tile.
ProposesInto(p, c) ==
    /\ InNeighbourhood(p, c)
    /\ Solid(blocks, c)
    /\ p.y + PLAYER_HEIGHT <= TileBox(c).y
    /\ p.x < TileBox(c).x + BS
    /\ p.x + PLAYER_WIDTH > TileBox(c).x
    /\ Overlaps(p.x_change, p.y_change, c)
    /\ p.y_change + PLAYER_HEIGHT > TileBox(c).y
    /\ p.y_change + PLAYER_HEIGHT <= TileBox(c).y + BS

\* C4: when an entity above a solid tile proposes a y_change that would put
\* its bottom edge inside that tile directly below it, the step clamps
\* y_change and the final y to tile.y - entity.height and grounded is true.
C4_LandingClamps ==
    pc = "load" =>
        \A c \in DOMAIN blocks :
            ProposesInto(prev, c) =>
                /\ player.y = TileBox(c).y - PLAYER_HEIGHT
                /\ player.y_change = TileBox(c).y - PLAYER_HEIGHT
                /\ player.grounded

\* A step has just landed the entity, falling from the air, on the floor tile
\* (0, 1, 5).
C4_Witness ==
    /\ pc = "load"
    /\ ProposesInto(prev, <<0, 1, 5>>)
    /\ prev.y + PLAYER_HEIGHT < TileBox(<<0, 1, 5>>).y
    /\ player.y = TileBox(<<0, 1, 5>>).y - PLAYER_HEIGHT
    /\ player.grounded

\* The block b of the collision list of p is resolved vertically, from above.
FromAbove(p, b) ==
    LET x_overlap == Min(p.x + PLAYER_WIDTH, b.x + BS) - Max(p.x, b.x)
        y_overlap == Min(p.y + PLAYER_HEIGHT, b.y + BS) - Max(p.y, b.y)
    IN ~(x_overlap < y_overlap) /\ p.y < b.y

\* C5: after update_player_position, grounded is true only if that step
\* resolved a vertical collision from above.
C5_GroundedOnlyFromAbove ==
    (pc = "load" /\ player.grounded) =>
        LET bl == find_colliding_blocks(blocks, chunk_list, prev)
        IN \E i \in 1..Len(bl) : FromAbove(prev, bl[i])

----------------------------------------------------------------------------
(* Claims about the water automaton *)

WaterCells(b) == {c \in DOMAIN b : b[c].block_type = "Water"}

Below(c) == <<c[1], c[2], c[3] + 1>>
Above(c) == <<c[1], c[2], c[3] - 1>>

\* The cells immediately left and right of c, inside the window.
Sides(c) ==
    {<<s.pos, s.x, c[3]>> :
        s \in {t \in {SideCell(chunk_list, c[1], c[2], -1),
                      SideCell(chunk_list, c[1], c[2], 1)} : t.ok}}

\* In grid b the Water tile p is the only tile from which water can reach n
\* in one call: no Water above n and no Water on the other side of n.
OnlyParent(b, n, p) ==
    /\ Tile(b, Above(n)).block_type # "Water"
    /\ \A q \in Sides(n) \ {p} : Tile(b, q).block_type # "Water"

\* C6: with a water source (distance 0) at (chunk 0, column 10, row 50), no
\* other water and Air in the column below it, one update_water call creates
\* a Water tile with water_distance 1 at (0, 10, 51), creates no other water
\* tile, changes nothing else and leaves (0, 10, 50) a distance-0 source.
C6_SourceFlowsDownOnce ==
    (/\ hist.op = "update_water"
     /\ WaterCells(hist.b) = {WellSource}
     /\ Tile(hist.b, WellSource).water_distance = 0
     /\ \A y \in (WellTop + 1)..(WellFloor - 1) :
            TileAt(hist.b, 0, WellCol, y).block_type = "Air")
    => /\ blocks = SetTile(hist.b, 0, 10, 51, Block("Water", 1))
       /\ Tile(blocks, <<0, 10, 50>>) = Block("Water", 0)
       /\ WaterCells(blocks) = {<<0, 10, 50>>, <<0, 10, 51>>}

\* The first update_water call after a source was placed at (0, 10, 50) above
\* an Air column.
C6_Witness ==
    /\ hist.op = "update_water"
    /\ WaterCells(hist.b) = {<<0, 10, 50>>}
    /\ Tile(hist.b, <<0, 10, 50>>) = Block("Water", 0)
    /\ \A y \in 51..58 : TileAt(hist.b, 0, 10, y).block_type = "Air"
    /\ Tile(blocks, <<0, 10, 51>>) = Block("Water", 1)

\* The tile below c is Air or Poppy when update_water, started on grid b,
\* comes to process c: it is so in b, and no Water beside it floods it first.
AirOrPoppyBelow(b, c) ==
    /\ c[3] < CHUNK_HEIGHT - 1
    /\ Tile(b, Below(c)).block_type \in {"Air", "Poppy"}
    /\ \A q \in Sides(Below(c)) : Tile(b, q).block_type # "Water"

\* C7: in one update_water call, a processed Water tile whose tile directly
\* below is Air or Poppy converts that tile to Water (distance + 1) and does
\* not flow sideways: a left or right neighbour that only it could flood is
\* unchanged.
C7_DownwardExcludesSideways ==
    hist.op = "update_water" =>
        \A c \in WaterCells(hist.b) :
            AirOrPoppyBelow(hist.b, c) =>
                /\ Tile(blocks, Below(c)) =
                       Block("Water", Tile(hist.b, c).water_distance + 1)
                /\ \A n \in Sides(c) :
                       OnlyParent(hist.b, n, c) => Tile(blocks, n) = Tile(hist.b, n)

\* An update_water call in which the Water tile (0, 10, 56), with Air below
\* and the Air pocket (0, 11, 56) beside it, flowed down and left the pocket Air.
C7_Witness ==
    /\ hist.op = "update_water"
    /\ Tile(hist.b, <<0, 10, 56>>).block_type = "Water"
    /\ Tile(hist.b, <<0, 10, 57>>).block_type = "Air"
    /\ Tile(hist.b, <<0, 11, 56>>).block_type = "Air"
    /\ OnlyParent(hist.b, <<0, 11, 56>>, <<0, 10, 56>>)
    /\ Tile(blocks, <<0, 10, 57>>).block_type = "Water"
    /\ Tile(blocks, <<0, 11, 56>>).block_type = "Air"

\* C8: a Water tile with water_distance >= MAX_SPREAD_DISTANCE and no Air below
\* never creates water in its left or right neighbour (a neighbour that only it
\* could flood is unchanged by update_water), and every Water tile created by
\* sideways flow (a new Water tile with no Water above it) has
\* water_distance <= MAX_SPREAD_DISTANCE.
C8_SidewaysStopsAtLimit ==
    hist.op = "update_water" =>
        /\ \A p \in WaterCells(hist.b) :
               (/\ Tile(hist.b, p).water_distance >= MAX_SPREAD_DISTANCE
                /\ Tile(hist.b, Below(p)).block_type # "Air")
               => \A n \in Sides(p) :
                      OnlyParent(hist.b, n, p) => Tile(blocks, n) = Tile(hist.b, n)
        /\ \A n \in WaterCells(blocks) \ WaterCells(hist.b) :
               Tile(hist.b, Above(n)).block_type # "Water"
               => Tile(blocks, n).water_distance <= MAX_SPREAD_DISTANCE

\* An update_water call that found (0, 10, 57) at distance 7 with Water below
\* and the Air pocket (0, 9, 57) beside it, and left the pocket Air, while the
\* other pocket (0, 11, 56) holds water that flowed sideways to distance 7.
C8_Witness ==
    /\ hist.op = "update_water"
    /\ Tile(hist.b, <<0, 10, 57>>) = Block("Water", 7)
    /\ Tile(hist.b, <<0, 10, 58>>).block_type = "Water"
    /\ Tile(hist.b, <<0, 9, 57>>).block_type = "Air"
    /\ Tile(blocks, <<0, 9, 57>>).block_type = "Air"
    /\ Tile(blocks, <<0, 11, 56>>) = Block("Water", 7)

\* C9: in every state reachable by place_water_source, update_water and
\* break_block, every Water tile's water_distance is at most 7.
C9_DistanceCapped ==
    \A c \in WaterCells(blocks) : blocks[c].water_distance <= MAX_SPREAD_DISTANCE

\* The cells 4-directionally adjacent to c, inside the grid and the window.
Adjacent(c) ==
    {n \in Sides(c) \cup {Above(c), Below(c)} : InGrid(n[2], n[3])}

\* The non-source Water tiles of grid b reachable from the cells of S by
\* 4-directional adjacency through non-source Water tiles.
RECURSIVE FlowFrom(_, _, _)
FlowFrom(b, S, found) ==
    LET more == {n \in UNION {Adjacent(c) : c \in S} :
                    /\ n \notin found
                    /\ Tile(b, n).block_type = "Water"
                    /\ Tile(b, n).water_distance # 0}
    IN IF more = {} THEN found ELSE FlowFrom(b, more, found \cup more)

\* C10: breaking a water source within reach removes every non-source Water
\* tile reachable from the source by 4-directional adjacency through Water
\* tiles inside the window, and then the source tile itself becomes Air.
C10_SourceBreakRemovesFlow ==
    (hist.op = "break_block" /\ hist.result = "Water") =>
        /\ \A c \in FlowFrom(hist.b, {hist.cell}, {}) :
               Tile(blocks, c).block_type = "Air"
        /\ Tile(blocks, hist.cell).block_type = "Air"

\* The source tiles of grid b.
Sources(b) == {c \in WaterCells(b) : b[c].water_distance = 0}

\* C11: breaking a water source changes no other source tile (every other
\* distance-0 Water tile is still a distance-0 Water tile), and the removal
\* search does not pass through a source: every Water tile that is not
\* reachable from the broken source through non-source Water is unchanged.
C11_SourceBreakSparesSources ==
    (hist.op = "break_block" /\ hist.result = "Water") =>
        /\ \A c \in Sources(hist.b) \ {hist.cell} : Tile(blocks, c) = Block("Water", 0)
        /\ \A c \in WaterCells(hist.b) \ ({hist.cell} \cup FlowFrom(hist.b, {hist.cell}, {})) :
               Tile(blocks, c) = Tile(hist.b, c)

\* The source (0, 10, 50) is broken while its flow reaches down to a second
\* source at (0, 10, 54) with flowing water under it; the second source and
\* the water under it are still there.
C11_Witness ==
    /\ hist.op = "break_block"
    /\ hist.result = "Water"
    /\ hist.cell = <<0, 10, 50>>
    /\ Tile(hist.b, <<0, 10, 53>>).block_type = "Water"
    /\ Tile(hist.b, <<0, 10, 54>>) = Block("Water", 0)
    /\ Tile(hist.b, <<0, 10, 55>>) = Block("Water", 1)
    /\ Tile(blocks, <<0, 10, 50>>).block_type = "Air"
    /\ Tile(blocks, <<0, 10, 54>>) = Block("Water", 0)
    /\ Tile(blocks, <<0, 10, 55>>) = Block("Water", 1)

\* The tiles from which water can come into cell n: above it and beside it.
Parents(n) == {Above(n)} \cup Sides(n)

\* C12: every Water tile created by update_water (downward or sideways) has
\* the water_distance of a parent tile (a tile above or beside it that was
\* Water before the call) plus one, so it is never 0, and update_water leaves
\* the set of source tiles as it was.
C12_FlowAddsOne ==
    hist.op = "update_water" =>
        /\ \A n \in WaterCells(blocks) \ WaterCells(hist.b) :
               /\ blocks[n].water_distance >= 1
               /\ \E p \in Parents(n) \cap WaterCells(hist.b) :
                      blocks[n].water_distance = hist.b[p].water_distance + 1
        /\ Sources(blocks) = Sources(hist.b)

\* An update_water call that floods the pocket (0, 11, 56) sideways from
\* (0, 10, 56) and, in the same call, a tile downward from a source.
C12_Witness ==
    /\ hist.op = "update_water"
    /\ Tile(hist.b, <<0, 11, 56>>).block_type = "Air"
    /\ Tile(blocks, <<0, 11, 56>>) =
           Block("Water", Tile(hist.b, <<0, 10, 56>>).water_distance + 1)
    /\ \E c \in Sources(hist.b) :
           /\ Tile(hist.b, Below(c)).block_type = "Air"
           /\ Tile(blocks, Below(c)) = Block("Water", 1)



----------------------------------------------------------------------------
(* Claims about breaking and placing *)

\* Cell c is a cell of a chunk of the window.
InWindow(c) == c[1] \in Positions(chunk_list) /\ InGrid(c[2], c[3])

\* The cells in which grids a and b differ.
Changed(a, b) == {c \in DOMAIN a \cup DOMAIN b : Tile(a, c) # Tile(b, c)}

\* The last operation was rejected: nothing returned, no tile changed.
Rejected == hist.result = "Air" /\ blocks = hist.b

\* C13: break_block on a target tile of type Air or Bedrock returns AIR and
\* leaves every tile of every chunk of the window unchanged.
C13_AirAndBedrockNotBroken ==
    (/\ hist.op = "break_block"
     /\ InWindow(hist.cell)
     /\ Tile(hist.b, hist.cell).block_type \in {"Air", "Bedrock"})
    => Rejected

\* The square of the distance between the centre of entity p and the centre
\* of the tile at cell c.
CentreDistance2(p, c) ==
    LET dx == (p.x + PLAYER_WIDTH \div 2) - (TileBox(c).x + BS \div 2)
        dy == (p.y + PLAYER_HEIGHT \div 2) - (TileBox(c).y + BS \div 2)
    IN dx * dx + dy * dy

Reach2 == (MAX_REACH * BLOCK_SIZE * PX) * (MAX_REACH * BLOCK_SIZE * PX)

\* A break of the Bedrock tile (0, 7, 20), which is within reach, changed
\* nothing.
C13_Witness ==
    /\ hist.op = "break_block"
    /\ hist.cell = <<0, 7, 20>>
    /\ Tile(hist.b, hist.cell).block_type = "Bedrock"
    /\ CentreDistance2(player, hist.cell) <= Reach2
    /\ Rejected

\* What a break of tile yields: CobbleStone for Stone, nothing for flowing
\* Water, Water for a source, the tile's own type otherwise.
Yield(tile) ==
    IF tile.block_type = "Stone" THEN "CobbleStone"
    ELSE IF tile.block_type = "Water" /\ tile.water_distance # 0 THEN "Air"
    ELSE tile.block_type

\* C14: a break_block on a breakable tile within reach changes that tile to
\* Air and no other tile (apart from non-source Water removed by the break of
\* a source), and returns CobbleStone for Stone, AIR for non-source Water,
\* Water for a source and the tile's own type for every other type.
C14_BreakYields ==
    (/\ hist.op = "break_block"
     /\ InWindow(hist.cell)
     /\ Tile(hist.b, hist.cell).block_type \notin {"Air", "Bedrock"}
     /\ CentreDistance2(player, hist.cell) <= Reach2)
    => /\ Tile(blocks, hist.cell) = AirTile
       /\ hist.result = Yield(Tile(hist.b, hist.cell))
       /\ \A c \in Changed(hist.b, blocks) \ {hist.cell} :
              /\ Tile(hist.b, hist.cell) = Block("Water", 0)
              /\ Tile(hist.b, c).block_type = "Water"
              /\ Tile(hist.b, c).water_distance # 0
              /\ Tile(blocks, c) = AirTile

\* The Stone tile under the player was broken and yielded CobbleStone.
C14_Witness ==
    /\ hist.op = "break_block"
    /\ hist.cell = <<0, 5, 20>>
    /\ Tile(hist.b, hist.cell).block_type = "Stone"
    /\ hist.result = "CobbleStone"
    /\ Changed(hist.b, blocks) = {hist.cell}

\* The cells the self-placement test of place_block compares the target
\* with: the column of the entity's left edge, in its head and foot rows.
GuardedCell(p, c) ==
    /\ c[1] = p.x \div CW
    /\ c[2] = (p.x % CW) \div BS
    /\ c[3] \in {p.y \div BS, (p.y + PLAYER_HEIGHT - PX) \div BS}

\* C16: break_block and place_block on a target whose centre is more than
\* MAX_REACH tiles from the player's centre return AIR / False and change no
\* tile; a breakable, respectively Air and unguarded, target at a distance
\* of at most MAX_REACH tiles is broken, respectively filled.
C16_ReachLimit ==
    (hist.op \in {"break_block", "place_block"} /\ InWindow(hist.cell)) =>
        /\ CentreDistance2(player, hist.cell) > Reach2 => Rejected
        /\ (/\ CentreDistance2(player, hist.cell) <= Reach2
            /\ hist.op = "break_block"
            /\ Tile(hist.b, hist.cell).block_type \notin {"Air", "Bedrock"})
           => Tile(blocks, hist.cell) = AirTile
        /\ (/\ CentreDistance2(player, hist.cell) <= Reach2
            /\ hist.op = "place_block"
            /\ Tile(hist.b, hist.cell) = AirTile
            /\ ~GuardedCell(player, hist.cell))
           => Tile(blocks, hist.cell).block_type \in PlaceTypes

\* A tile was placed in chunk -1 at a distance of exactly MAX_REACH tiles.
C16_Witness ==
    /\ hist.op = "place_block"
    /\ hist.cell = <<-1, CHUNK_WIDTH - 1, 17>>
    /\ CentreDistance2(player, hist.cell) = Reach2
    /\ Tile(hist.b, hist.cell) = AirTile
    /\ Tile(blocks, hist.cell).block_type = "Stone"

\* C17: place_block on a target that is not Air returns False and changes
\* nothing; when it succeeds the target was Air and the only change is the
\* target tile, which becomes a distance-0 Water source for type Water and a
\* plain tile of the given type otherwise.
C17_PlaceOnlyIntoAir ==
    hist.op = "place_block" =>
        /\ (InWindow(hist.cell) /\ Tile(hist.b, hist.cell) # AirTile) => Rejected
        /\ hist.result # "Air" =>
               /\ Tile(hist.b, hist.cell) = AirTile
               /\ Tile(blocks, hist.cell) = Block(hist.result, 0)
               /\ Changed(hist.b, blocks) = {hist.cell}

\* A water source was placed into the Air cell (0, 4, 19).
C17_Witness ==
    /\ hist.op = "place_block"
    /\ hist.cell = <<0, 4, 19>>
    /\ hist.result = "Water"
    /\ Tile(hist.b, hist.cell) = AirTile
    /\ Tile(blocks, hist.cell) = Block("Water", 0)

\* C18: place_block is rejected whenever the target tile's box overlaps the
\* placing player's bounding box.
C18_NoPlacementOnSelf ==
    (/\ hist.op = "place_block"
     /\ InWindow(hist.cell)
     /\ Overlaps(player.x, player.y, hist.cell))
    => Rejected

\* C19: on a click in a chunk that is not in the window, or in a row outside
\* the grid, get_block_at_position finds no tile, and break_block and
\* place_block return AIR / False and change no tile.
C19_OutsideWindowRejected ==
    (hist.op \in {"break_block", "place_block"} /\ ~InWindow(hist.cell)) =>
        /\ ~get_block_at_position(MouseAt(hist.cell).x, MouseAt(hist.cell).y,
                                  camera, chunk_list).found
        /\ Rejected

\* A placement in the row above the grid, one tile above the player, was
\* rejected.
C19_Witness ==
    /\ hist.op = "place_block"
    /\ hist.cell = <<0, 5, -1>>
    /\ CentreDistance2(player, hist.cell) <= Reach2
    /\ Rejected

\* The columns, the rows and the offsets inside a tile at which the
\* addressing is probed: the first and the last of each.
AddressColumns == {0, CHUNK_WIDTH - 1}
AddressRows == {0, CHUNK_HEIGHT - 1}
AddressOffsets == {0, BS - 1}

\* C37: address resolution inverts tile addressing. For every chunk of the
\* window, of negative position too, and every column and row of the grid,
\* a screen point whose world coordinate lies in the box of the tile
\* (position * CHUNK_WIDTH * BLOCK_SIZE + column * BLOCK_SIZE, row *
\* BLOCK_SIZE, one BLOCK_SIZE wide and high) resolves through
\* get_block_at_position to that chunk, column and row, wherever the camera
\* is.
C37_ResolutionInvertsAddressing ==
    \A i \in DOMAIN chunk_list, column \in AddressColumns, row \in AddressRows,
       dx \in AddressOffsets, dy \in AddressOffsets :
        LET world_x == chunk_list[i] * CW + column * BS + dx
            world_y == row * BS + dy
            at == get_block_at_position(world_x - camera.x, world_y - camera.y,
                                        camera, chunk_list)
        IN /\ at.found
           /\ at.chunk = chunk_list[i]
           /\ at.block_x = column
           /\ at.block_y = row

\* The player stands at the left edge of chunk 0 and has placed a Stone
\* through a screen point over column 62 of the chunk at position -1.
C37_Witness ==
    /\ pc = "control"
    /\ player.x = 0
    /\ hist.op = "place_block"
    /\ hist.result = "Stone"
    /\ hist.cell[1] = -1
    /\ hist.cell[2] = CHUNK_WIDTH - 2
    /\ camera.x < 0
    /\ Tile(blocks, hist.cell).block_type = "Stone"

----------------------------------------------------------------------------
(* Claims about the inventory *)

\* C15: in the game tick, whatever type a break yields is added to the
\* inventory: after a right-click break that yields a type (Water for a
\* source, CobbleStone for Stone, the tile's own type otherwise) the count of
\* that type is one higher, and after a click that yields nothing (non-source
\* Water, a rejected break) the inventory is unchanged.
C15_BreakYieldCollected ==
    hist.op = "right_click" =>
        IF hist.result # "Air"
        THEN get_block_count(inventory, hist.result)
                 = get_block_count(hist.inv, hist.result) + 1
        ELSE inventory = hist.inv

\* The keys of the dictionary collected_blocks.
Keys(inv) == {inv.collected_blocks[i].block_type : i \in DOMAIN inv.collected_blocks}

\* C20: after any sequence of add_block and remove_block calls with positive
\* quantities every key of collected_blocks has a quantity > 0, and
\* has_block(t) is true exactly when t is a key, exactly when
\* get_block_count(t) > 0.
C20_KeysArePositive ==
    /\ \A i \in DOMAIN inventory.collected_blocks :
           inventory.collected_blocks[i].quantity > 0
    /\ \A t \in InventoryTypes :
           /\ has_block(inventory, t) <=> t \in Keys(inventory)
           /\ has_block(inventory, t) <=> get_block_count(inventory, t) > 0

\* remove_block took the last blocks of a type that was held: its entry is
\* gone, while another type is still held.
C20_Witness ==
    /\ hist.op = "remove_block"
    /\ has_block(hist.inv, hist.result)
    /\ hist.result \notin Keys(inventory)
    /\ ~has_block(inventory, hist.result)
    /\ Keys(inventory) # {}

\* C21: remove_block(t, q) with q greater than the held quantity of t (or
\* with t not held) returns False and leaves the inventory (quantities,
\* selected block, selected index) unchanged, and no quantity is ever negative.
C21_UnderflowRejected ==
    /\ \A i \in DOMAIN inventory.collected_blocks :
           inventory.collected_blocks[i].quantity >= 0
    /\ (/\ hist.op = "remove_block"
        /\ hist.quantity > get_block_count(hist.inv, hist.result))
       => (~hist.ok /\ inventory = hist.inv)

\* remove_block asked for two blocks of a type of which one is held.
C21_Witness ==
    /\ hist.op = "remove_block"
    /\ get_block_count(hist.inv, hist.result) = 1
    /\ hist.quantity = 2
    /\ ~hist.ok
    /\ inventory = hist.inv

\* C34: when add_block adds a collectible block type to an inventory whose
\* selected block is Air, the selected block becomes that type.
C34_FirstBlockSelected ==
    (/\ hist.op = "add_block"
     /\ hist.result \in AVAILABLE_BLOCKS
     /\ hist.inv.selected_block = "Air")
        => inventory.selected_block = hist.result

\* C35: after any sequence of add_block, remove_block, select_block,
\* select_next_block and select_previous_block calls the selected block is
\* Air or a type held with a quantity > 0, and when it is not Air it is the
\* key at position selected_index of the dictionary's key order.
C35_SelectionValid ==
    /\ inventory.selected_block # "Air" => has_block(inventory, inventory.selected_block)
    /\ inventory.selected_block # "Air" =>
           /\ inventory.selected_index < Len(inventory.collected_blocks)
           /\ inventory.collected_blocks[inventory.selected_index + 1].block_type
                  = inventory.selected_block

\* The number of tiles of block_type in grid b.
TilesOf(b, block_type) ==
    Cardinality({c \in DOMAIN b : b[c].block_type = block_type})

\* C36: in the game tick a block is placed only if the selected type is not
\* Air and is held; a successful placement puts a tile of the selected type
\* and takes exactly one block of it from the inventory, a click that places
\* nothing adds no tile and takes nothing (what a break of the same frame
\* yields is added in both cases), and no more blocks of a type are placed
\* than were collected: the CobbleStone placed and held is the Stone broken,
\* the OakLog placed and held is the OakLog of the scene.
C36_PlacementConsumes ==
    /\ hist.op = "click" =>
           LET selected == hist.inv.selected_block
               gained(t) == IF hist.result = t THEN 1 ELSE 0
               spent(t) == IF hist.ok /\ t = selected THEN 1 ELSE 0
           IN /\ \A t \in AVAILABLE_BLOCKS :
                     get_block_count(inventory, t)
                         = get_block_count(hist.inv, t) + gained(t) - spent(t)
              /\ hist.ok =>
                     /\ hist.quantity = 1
                     /\ selected # "Air"
                     /\ get_block_count(hist.inv, selected) + gained(selected) >= 1
                     /\ Tile(blocks, hist.cell) = Block(selected, 0)
              /\ ~hist.ok =>
                     \A c \in DOMAIN blocks : c \in DOMAIN hist.b /\ blocks[c] = hist.b[c]
    /\ TilesOf(blocks, "CobbleStone") + get_block_count(inventory, "CobbleStone")
           + TilesOf(blocks, "Stone") = TilesOf(InteractScene, "Stone")
    /\ TilesOf(blocks, "OakLog") + get_block_count(inventory, "OakLog")
           = TilesOf(InteractScene, "OakLog")

\* A left click has placed the last block held of the selected type.
C36_Witness ==
    /\ hist.op = "click"
    /\ hist.ok
    /\ hist.result = "Air"
    /\ get_block_count(hist.inv, hist.inv.selected_block) = 1
    /\ ~has_block(inventory, hist.inv.selected_block)
    /\ Tile(blocks, hist.cell).block_type = hist.inv.selected_block

----------------------------------------------------------------------------
(* Claims about crafting *)

\* The recipe of the last craft_item call.
Crafted == CHOOSE recipe \in {RECIPES[r] : r \in DOMAIN RECIPES} :
               recipe.name = hist.result

\* C22: for every recipe of RECIPES, when craft_item returns True the count
\* of each input type has decreased by exactly the quantity the recipe
\* requires and the count of the output type has increased by exactly the
\* output quantity; when the inputs do not suffice craft_item returns False
\* and the inventory is unchanged.
C22_CraftExchanges ==
    hist.op = "craft_item" =>
        IF hist.ok
        THEN /\ \A i \in DOMAIN Crafted.inputs :
                    get_block_count(inventory, Crafted.inputs[i].block_type)
                        = get_block_count(hist.inv, Crafted.inputs[i].block_type)
                              - Crafted.inputs[i].quantity
             /\ get_block_count(inventory, Crafted.output.block_type)
                    = get_block_count(hist.inv, Crafted.output.block_type)
                          + Crafted.output.quantity
        ELSE /\ ~can_craft(Crafted, hist.inv)
             /\ inventory = hist.inv

----------------------------------------------------------------------------
(* Claims about chunk generation *)

\* The layer of row y in a column of surface height h.
Layer(h, y) ==
    IF y < h + 27 THEN "Air"
    ELSE IF y = h + 27 THEN "Grass"
    ELSE IF y <= h + 30 THEN "Dirt"
    ELSE IF y <= 190 THEN "Stone"
    ELSE "Bedrock"

\* The first pass of generate_chunks has just written the grid.
FirstPassDone == gen.phase = "ores" /\ gen.features = 0

\* C23: with CHUNK_HEIGHT = 192, get_block_type gives a column of surface
\* height h Air for y < h+27, Grass at y = h+27, Dirt for h+27 < y <= h+30,
\* Stone for h+30 < y <= 190 and Bedrock at y = 191; with h = 8 that is Grass
\* at row 35, Dirt at rows 36..38, Stone at rows 39..190, Bedrock at row 191.
C23_TerrainLayers ==
    FirstPassDone =>
        \A x \in Columns :
            /\ \A y \in 0 .. CHUNK_HEIGHT - 1 :
                   ChunkTile(gen, x, y).block_type = Layer(gen.height[x], y)
            /\ gen.height[x] = 8 =>
                   /\ \A y \in 0 .. 34 : ChunkTile(gen, x, y).block_type = "Air"
                   /\ ChunkTile(gen, x, 35).block_type = "Grass"
                   /\ \A y \in 36 .. 38 : ChunkTile(gen, x, y).block_type = "Dirt"
                   /\ \A y \in 39 .. 190 : ChunkTile(gen, x, y).block_type = "Stone"
                   /\ ChunkTile(gen, x, 191).block_type = "Bedrock"

\* The first pass gave some column the height 8 and another one another
\* height, with the layers at their rows.
C23_Witness ==
    /\ FirstPassDone
    /\ \E x \in Columns :
           /\ gen.height[x] = 8
           /\ ChunkTile(gen, x, 34).block_type = "Air"
           /\ ChunkTile(gen, x, 35).block_type = "Grass"
           /\ ChunkTile(gen, x, 38).block_type = "Dirt"
           /\ ChunkTile(gen, x, 39).block_type = "Stone"
           /\ ChunkTile(gen, x, 191).block_type = "Bedrock"
    /\ \E x \in Columns :
           /\ gen.height[x] = 5
           /\ ChunkTile(gen, x, 32).block_type = "Grass"
           /\ ChunkTile(gen, x, 36).block_type = "Stone"

\* The cells whose tile a step of the generation writes.
Converted ==
    {c \in DOMAIN gen'.changed :
        c \notin DOMAIN gen.changed \/ gen'.changed[c] # gen.changed[c]}

Ores == {"Coal", "Iron", "Gold", "Diamond"}

VeinConverted(g) ==
    {c \in g.vein_blocks :
        c \in DOMAIN g.changed /\ g.changed[c].block_type = g.ore_type}

\* C32: generate_ore_vein grows the vein until the number of tiles converted
\* to ore equals the drawn size or the frontier is exhausted: when it
\* returns it has converted at most size tiles, and exactly size tiles if
\* its frontier is not empty. (A vein that returns without entering its loop
\* has size 1 and its seed in the frontier.)
C32_VeinReachesSize ==
    [][/\ (gen.phase = "ores" /\ gen'.phase = "ores" /\ gen'.features > gen.features)
              => Cardinality(Converted) = 1
       /\ gen.phase = "vein" =>
              \A k \in DOMAIN gen.frontier, chosen \in SUBSET DOMAIN FloodDirections :
                  LET stopped == FloodStep(gen, k, chosen, {"Stone"},
                                           Block(gen.ore_type, 0))
                      converted == Cardinality(VeinConverted(stopped))
                  IN (gen' = ore_vein_step(gen, k, chosen) /\ ~FloodContinues(stopped))
                         => /\ converted <= gen.size
                            /\ stopped.frontier # << >> => converted = gen.size]_vars

\* C33: every vein that place_ore_veins seeds on a Stone tile converts at
\* least its seed: once generate_ore_vein has returned, the tile where the
\* last vein was started is ore, whatever the ore and the size drawn.
C33_SeedConverted ==
    (gen.phase = "ores" /\ gen.scan >= 0)
        => ChunkTile(gen, gen.scan \div CHUNK_HEIGHT,
                     gen.scan % CHUNK_HEIGHT).block_type \in Ores

\* C39: the world floor is permanent. Once the first pass of
\* generate_chunks has run, through the other passes the bottom row (row
\* CHUNK_HEIGHT - 1) of the chunk under construction is Bedrock in every
\* column, and in the game every tile of the bottom row of every chunk of
\* the window is Bedrock after any break_block, place_block and
\* update_water calls.
C39_FloorIsBedrock ==
    /\ gen.phase \notin {"new", "game"} =>
           \A x \in Columns :
               ChunkTile(gen, x, CHUNK_HEIGHT - 1).block_type = "Bedrock"
    /\ gen.phase = "game" =>
           \A i \in DOMAIN chunk_list, x \in Columns :
               TileAt(blocks, chunk_list[i], x, CHUNK_HEIGHT - 1).block_type = "Bedrock"

\* In the game an ore vein lies in the row over the bottom row, Water stands
\* on the bottom row in column 2, and the last click, on the bottom row,
\* was refused.
C39_Witness ==
    /\ gen.phase = "game"
    /\ \E x \in Columns : TileAt(blocks, 0, x, CHUNK_HEIGHT - 2).block_type \in Ores
    /\ TileAt(blocks, 0, 2, CHUNK_HEIGHT - 2).block_type = "Water"
    /\ hist.op \in {"break_block", "place_block"}
    /\ hist.cell[3] = CHUNK_HEIGHT - 1
    /\ hist.result = "Air"

----------------------------------------------------------------------------
(* Claims about the game loop *)

\* The tiles of b that lie in the chunks of cl.
Windowed(b, cl) == [c \in {d \in DOMAIN b : d[1] \in Positions(cl)} |-> b[c]]

\* C25: every game tick (Game.update) runs, in this order, input sampling,
\* the physics step, load_chunks, one update_water, and presentation: from
\* load_chunks to the end of the tick the grid changes by exactly one
\* update_water over the window, whatever the input was.
C25_WaterTickEveryTick ==
    [][(pc = "load" /\ pc' = "control") =>
           blocks' = update_water(Windowed(blocks, chunk_list'), chunk_list')]_vars

\* A press of button is among the events handled in this frame.
Pressed(button) ==
    \E i \in DOMAIN mouse.frame :
        mouse.frame[i] = [type |-> "MOUSEBUTTONDOWN", button |-> button]

\* C38: when the events of a frame have been processed (reset_click_events,
\* then handle_events for each mouse button event in order),
\* left_click_event is true exactly when a press of the left button is among
\* them and right_click_event exactly when a press of the right button is,
\* whatever mouse button events follow the press in the frame.
C38_ClickEventsPerFrame ==
    /\ mouse.left_click_event <=> Pressed(1)
    /\ mouse.right_click_event <=> Pressed(3)

----------------------------------------------------------------------------
(* Claims about flooding *)

\* The Water tiles the last update_water call created.
NewWater == WaterCells(blocks) \ WaterCells(hist.b)

\* C26: water advances at most one tile per tick: every Water tile that
\* update_water creates is directly below, or immediately left or right of
\* (possibly across a chunk boundary inside the window), a tile that was
\* Water before the call; a tile created during the call does not flow in it.
C26_OneTilePerTick ==
    hist.op = "update_water" =>
        \A n \in NewWater :
            \/ Above(n) \in WaterCells(hist.b)
            \/ \E p \in Sides(n) : p \in WaterCells(hist.b)

\* An update_water call that made one tile Water below Water and another
\* one beside Water of the neighbouring chunk.
C26_Witness ==
    /\ hist.op = "update_water"
    /\ \E n \in NewWater : Above(n) \in WaterCells(hist.b)
    /\ \E n \in NewWater :
           \E p \in Sides(n) : p \in WaterCells(hist.b) /\ p[1] # n[1]

\* In grid b the source of column g stands alone on the flat floor: it is
\* the only source, every tile that is not Air is a Stone tile of the floor
\* or a Water tile of the row above it, and the eight columns on each side
\* of the source are inside the window and have their floor.
FlatAround(b, g) ==
    /\ Sources(b) = {Global(g, FloodFloor - 1)}
    /\ \A c \in DOMAIN b :
           \/ c[3] = FloodFloor /\ b[c].block_type = "Stone"
           \/ c[3] = FloodFloor - 1 /\ b[c].block_type = "Water"
    /\ \A i \in -(MAX_SPREAD_DISTANCE + 1) .. MAX_SPREAD_DISTANCE + 1 :
           /\ Global(g + i, FloodFloor)[1] \in Positions(chunk_list)
           /\ Tile(b, Global(g + i, FloodFloor)).block_type = "Stone"

Abs(i) == IF i < 0 THEN -i ELSE i

\* C27: with a single source on a flat solid floor in an otherwise Air row,
\* after k update_water calls (k <= 7) the Water tiles are exactly the tiles
\* of the row in the columns within k of the source, each with
\* water_distance equal to its column distance from the source; after 7
\* calls further calls change nothing, and water never reaches a column more
\* than 7 away.
C27_FlatSpread ==
    \A g \in FloodSources :
        FlatAround(blocks, g) =>
            LET k == Min(hist.quantity, MAX_SPREAD_DISTANCE)
            IN /\ WaterCells(blocks) = {Global(g + i, FloodFloor - 1) : i \in -k .. k}
               /\ \A i \in -k .. k :
                      Tile(blocks, Global(g + i, FloodFloor - 1)).water_distance = Abs(i)
               /\ hist.quantity > MAX_SPREAD_DISTANCE => blocks = hist.b

\* The eighth call around a source beside a chunk boundary: the water lies
\* seven columns to each side, in two chunks, and the call changed nothing.
C27_Witness ==
    /\ FlatAround(blocks, 3)
    /\ hist.quantity = MAX_SPREAD_DISTANCE + 1
    /\ Tile(blocks, Global(-4, FloodFloor - 1)) = Block("Water", 7)
    /\ Tile(blocks, Global(10, FloodFloor - 1)) = Block("Water", 7)
    /\ Tile(blocks, Global(11, FloodFloor - 1)).block_type = "Air"
    /\ blocks = hist.b

\* In grid b the Water tile p flows sideways when update_water reaches it:
\* it cannot flow down and it is not at the spread limit.
SpreadsSideways(b, p) ==
    /\ Tile(b, Below(p)).block_type \notin {"Air", "Poppy"}
    /\ Tile(b, p).water_distance < MAX_SPREAD_DISTANCE

Floodable(b, n) == Tile(b, n).block_type \in {"Air", "Poppy", "OakLog"}

\* C28: sideways flow crosses chunk boundaries only inside the window: Water
\* in column 0 floods column CHUNK_WIDTH-1 of the chunk at position-1, and
\* Water in column CHUNK_WIDTH-1 floods column 0 of the chunk at position+1,
\* when that chunk is in chunk_list; otherwise there is no flow on that side,
\* and update_water never writes outside the three chunks of the window.
C28_CrossChunkFlow ==
    hist.op = "update_water" =>
        /\ \A c \in DOMAIN blocks : c[1] \in Positions(chunk_list)
        /\ \A p \in WaterCells(hist.b) :
               LET left == <<p[1] - 1, CHUNK_WIDTH - 1, p[3]>>
                   right == <<p[1] + 1, 0, p[3]>>
               IN SpreadsSideways(hist.b, p) =>
                      /\ (/\ p[2] = 0
                          /\ p[1] - 1 \in Positions(chunk_list)
                          /\ Floodable(hist.b, left))
                         => Tile(blocks, left).block_type = "Water"
                      /\ (/\ p[2] = CHUNK_WIDTH - 1
                          /\ p[1] + 1 \in Positions(chunk_list)
                          /\ Floodable(hist.b, right))
                         => Tile(blocks, right).block_type = "Water"

\* An update_water call that found spreading Water in column 0 of the
\* leftmost chunk of the window, and in which Water of column 0 of the
\* middle chunk flooded column CHUNK_WIDTH-1 of the leftmost chunk.
C28_Witness ==
    /\ hist.op = "update_water"
    /\ \E p \in WaterCells(hist.b) :
           /\ p[1] = chunk_list[1] /\ p[2] = 0
           /\ SpreadsSideways(hist.b, p)
    /\ \E p \in WaterCells(hist.b) :
           /\ p[1] = chunk_list[2] /\ p[2] = 0
           /\ SpreadsSideways(hist.b, p)
           /\ Tile(hist.b, <<p[1] - 1, CHUNK_WIDTH - 1, p[3]>>).block_type = "Air"
           /\ Tile(blocks, <<p[1] - 1, CHUNK_WIDTH - 1, p[3]>>) =
                  Block("Water", Tile(hist.b, p).water_distance + 1)

\* The cells whose tile differs between grid b and the grid now.
ChangedSince(b) == {c \in DOMAIN blocks \cup DOMAIN b : Tile(blocks, c) # Tile(b, c)}

\* C29: update_water only adds water: it never removes a Water tile or
\* changes its distance, and it changes no tile other than an Air or Poppy
\* tile directly below Water and an Air, Poppy or OakLog tile immediately
\* beside Water; an OakLog directly below Water blocks the downward flow, and
\* solid tiles are unchanged.
C29_OnlyAddsWater ==
    hist.op = "update_water" =>
        /\ \A c \in WaterCells(hist.b) : Tile(blocks, c) = Tile(hist.b, c)
        /\ \A c \in ChangedSince(hist.b) :
               /\ Tile(blocks, c).block_type = "Water"
               /\ \/ /\ Tile(hist.b, c).block_type \in {"Air", "Poppy"}
                     /\ Above(c) \in WaterCells(hist.b)
                  \/ /\ Tile(hist.b, c).block_type \in {"Air", "Poppy", "OakLog"}
                     /\ \E p \in Sides(c) : p \in WaterCells(hist.b)
        /\ \A p \in WaterCells(hist.b) :
               (/\ Tile(hist.b, Below(p)).block_type = "OakLog"
                /\ \A q \in Sides(Below(p)) : q \notin WaterCells(hist.b))
               => Tile(blocks, Below(p)) = Tile(hist.b, Below(p))

\* An update_water call that found Water standing on an OakLog, left the
\* OakLog as it was and let that Water spread sideways.
C29_Witness ==
    /\ hist.op = "update_water"
    /\ \E p \in WaterCells(hist.b) :
           /\ Tile(hist.b, Below(p)).block_type = "OakLog"
           /\ Tile(blocks, Below(p)).block_type = "OakLog"
           /\ \E n \in NewWater : n \in Sides(p)

====
